---- MODULE Spec2Model ----
(***************************************************************************)
(* A model of the search subsystem of smart-bookmarks:                     *)
(*   src/src/search/local-search.js  (parser, scorer, local search, the     *)
(*                                    AI search cache, aiSemanticSearch,    *)
(*                                    hybridSearch, smartSearch)            *)
(*   src/src/search/index.js         (SearchHistory, search)                *)
(*   src/unnamed/part_001            (semanticSearch, the OpenAI client)    *)
(*   src/src/utils/link-checker.js   (the broken-link check)                *)
(*   src/src/background/background.js (handleCheckBrokenLinks)             *)
(*                                                                         *)
(* A JavaScript string is a sequence of characters; a character is a       *)
(* one-element atom written as a TLA+ string ("a", ":", " ").  The two     *)
(* characters of the exclude marker are written "pai" and "chu".           *)
(***************************************************************************)
EXTENDS Integers, Sequences, FiniteSets, TLC

(***************************************************************************)
(* Strings                                                                 *)
(***************************************************************************)

UpperToLower ==
  [c \in {"A", "B", "G", "T", "X"} |->
     CASE c = "A" -> "a" [] c = "B" -> "b" [] c = "G" -> "g"
       [] c = "T" -> "t" [] c = "X" -> "x"]

LowerChar(c) == IF c \in DOMAIN UpperToLower THEN UpperToLower[c] ELSE c

toLowerCase(s) == [i \in 1..Len(s) |-> LowerChar(s[i])]

\* \s of the regular expressions and of String.prototype.trim
IsSpace(c) == c = " "

RECURSIVE trimStart(_)
trimStart(s) ==
  IF s # <<>> /\ IsSpace(Head(s)) THEN trimStart(Tail(s)) ELSE s

RECURSIVE trimEnd(_)
trimEnd(s) ==
  IF s # <<>> /\ IsSpace(s[Len(s)]) THEN trimEnd(SubSeq(s, 1, Len(s) - 1)) ELSE s

trim(s) == trimEnd(trimStart(s))

\* !query alone
IsEmpty(s) == s = <<>>

\* !query || !query.trim()
IsBlank(s) == trim(s) = <<>>

\* p occurs in s at the 1-based position i
StartsAt(s, p, i) ==
  /\ i >= 1
  /\ i + Len(p) - 1 <= Len(s)
  /\ \A k \in 1..Len(p) : s[i + k - 1] = p[k]

\* String.prototype.includes
includes(s, p) == \E i \in 1..(Len(s) - Len(p) + 1) : StartsAt(s, p, i)

\* String.prototype.startsWith
startsWith(s, p) == StartsAt(s, p, 1)

\* String.prototype.indexOf(p, from), 0-based, -1 when p does not occur
indexOf(s, p, from) ==
  LET hits == {i \in (from + 1)..(Len(s) - Len(p) + 1) : StartsAt(s, p, i)}
  IN  IF hits = {} THEN -1
      ELSE (CHOOSE i \in hits : \A j \in hits : i <= j) - 1

\* String.prototype.substring(a, b), 0-based, b exclusive
substring(s, a, b) == SubSeq(s, a + 1, b)

RECURSIVE join(_, _)
join(ss, sep) ==
  IF ss = <<>> THEN <<>>
  ELSE IF Len(ss) = 1 THEN ss[1]
  ELSE ss[1] \o sep \o join(Tail(ss), sep)

RECURSIVE Flatten(_)
Flatten(ss) == IF ss = <<>> THEN <<>> ELSE Head(ss) \o Flatten(Tail(ss))

Filter(s, Keep(_)) == SelectSeq(s, Keep)

Map(s, F(_)) == [i \in 1..Len(s) |-> F(s[i])]

\* the elements of a sequence
Range(s) == {s[i] : i \in 1..Len(s)}

\* Array.prototype.slice(0, n)
Take(s, n) == SubSeq(s, 1, IF n < Len(s) THEN n ELSE Len(s))

(***************************************************************************)
(* The regular expressions of SearchParser.parse                           *)
(***************************************************************************)

\* the last position of the run of non-space characters that starts at i
RECURSIVE RunEnd(_, _)
RunEnd(s, i) ==
  IF i + 1 <= Len(s) /\ ~IsSpace(s[i + 1]) THEN RunEnd(s, i + 1) ELSE i

\* /<marker>(\S+)/gi : the matches, left to right, as <<first, last>> positions
RECURSIVE MarkerSpans(_, _, _)
MarkerSpans(s, marker, i) ==
  IF i > Len(s) THEN <<>>
  ELSE IF /\ StartsAt(toLowerCase(s), marker, i)
          /\ i + Len(marker) <= Len(s)
          /\ ~IsSpace(s[i + Len(marker)])
       THEN LET e == RunEnd(s, i + Len(marker))
            IN  <<(<<i, e>>)>> \o MarkerSpans(s, marker, e + 1)
       ELSE MarkerSpans(s, marker, i + 1)

Quote == "\""

\* the position of the first quote at or after i, 0 when there is none
NextQuote(s, i) ==
  LET qs == {j \in i..Len(s) : s[j] = Quote}
  IN  IF qs = {} THEN 0 ELSE CHOOSE j \in qs : \A k \in qs : j <= k

\* /"([^"]+)"/g
RECURSIVE PhraseSpans(_, _)
PhraseSpans(s, i) ==
  IF i > Len(s) THEN <<>>
  ELSE IF s[i] = Quote /\ NextQuote(s, i + 1) >= i + 2
       THEN LET e == NextQuote(s, i + 1)
            IN  <<(<<i, e>>)>> \o PhraseSpans(s, e + 1)
       ELSE PhraseSpans(s, i + 1)

\* String.prototype.match with a global regular expression: the matched texts
MatchTexts(s, spans) == [k \in 1..Len(spans) |-> SubSeq(s, spans[k][1], spans[k][2])]

\* String.prototype.replace(re, '') with a global regular expression
RemoveSpans(s, spans) ==
  LET gone == UNION {spans[k][1]..spans[k][2] : k \in 1..Len(spans)}
      Keep[i \in 0..Len(s)] ==
        IF i = 0 THEN <<>>
        ELSE IF i \in gone THEN Keep[i - 1] ELSE Append(Keep[i - 1], s[i])
  IN  Keep[Len(s)]

\* String.prototype.split(/\s+/).filter(k => k)
RECURSIVE splitSpaces(_)
splitSpaces(s) ==
  LET t == trimStart(s)
  IN  IF t = <<>> THEN <<>>
      ELSE LET e == RunEnd(t, 1)
           IN  <<SubSeq(t, 1, e)>> \o splitSpaces(SubSeq(t, e + 1, Len(t)))

TagMarker == <<"t", "a", "g", ":">>
SiteMarker == <<"s", "i", "t", "e", ":">>
ExcludeMarker == <<"pai", "chu", ":">>

(***************************************************************************)
(* SearchParser                                                            *)
(***************************************************************************)

NoFilters == [tags |-> <<>>, sites |-> <<>>, include |-> <<>>, exclude |-> <<>>]

\* cleanedQuery.match(re).map(m => m.substring(n).toLowerCase())
MatchedTokens(s, spans, n) ==
  [k \in 1..Len(spans) |->
     toLowerCase(substring(MatchTexts(s, spans)[k], n, spans[k][2] - spans[k][1] + 1))]

\* cleanedQuery.match(/"([^"]+)"/g).map(p => p.slice(1, -1).toLowerCase())
MatchedPhrases(s, spans) ==
  [k \in 1..Len(spans) |-> toLowerCase(SubSeq(s, spans[k][1] + 1, spans[k][2] - 1))]

\* remainingQuery.replace(/<marker>\S+/gi, '')
StripMarker(s, marker) == RemoveSpans(s, MarkerSpans(s, marker, 1))

\* remainingQuery.replace(/"[^"]+"/g, '')
StripPhrases(s) == RemoveSpans(s, PhraseSpans(s, 1))

\* the keywords left of cleanedQuery once the four patterns are removed
RemainingKeywords(cleanedQuery) ==
  Map(splitSpaces(trim(StripPhrases(StripMarker(StripMarker(StripMarker(
        cleanedQuery, TagMarker), SiteMarker), ExcludeMarker)))),
      toLowerCase)

\* SearchParser.parse once the query is trimmed
parseCleaned(cleanedQuery) ==
  [tags |-> MatchedTokens(cleanedQuery, MarkerSpans(cleanedQuery, TagMarker, 1), 4),
   sites |-> MatchedTokens(cleanedQuery, MarkerSpans(cleanedQuery, SiteMarker, 1), 5),
   exclude |-> MatchedTokens(cleanedQuery, MarkerSpans(cleanedQuery, ExcludeMarker, 1), 3),
   include |-> MatchedPhrases(cleanedQuery, PhraseSpans(cleanedQuery, 1))
               \o RemainingKeywords(cleanedQuery)]

parse(query) == IF IsBlank(query) THEN NoFilters ELSE parseCleaned(trim(query))

\* `${title} ${url} ${description} ${tags.join(' ')}`.toLowerCase()
allText(bookmark) ==
  toLowerCase(bookmark.title \o <<" ">> \o bookmark.url \o <<" ">>
              \o bookmark.description \o <<" ">> \o join(bookmark.tags, <<" ">>))

\* matches without the check of the exclude tokens
matchesIgnoringExclude(bookmark, filters) ==
  LET text == allText(bookmark)
      urlLower == toLowerCase(bookmark.url)
      tagsLower == Map(bookmark.tags, toLowerCase)
      HasSpace(f) == \E i \in 1..Len(f) : f[i] = " "
      exactPhrases == {f \in Range(filters.include) : HasSpace(f)}
      singleKeywords == {f \in Range(filters.include) : ~HasSpace(f)}
  IN  /\ filters.sites # <<>> =>
           \E site \in Range(filters.sites) : includes(urlLower, site)
      /\ filters.tags # <<>> =>
           \A tag \in Range(filters.tags) :
             \E t \in Range(tagsLower) : includes(t, tag)
      /\ \A phrase \in exactPhrases : includes(text, phrase)
      /\ singleKeywords # {} =>
           \E keyword \in singleKeywords : includes(text, keyword)

\* matches with tag filters of which one is enough
matchesAnyTag(bookmark, filters) ==
  LET text == allText(bookmark)
      urlLower == toLowerCase(bookmark.url)
      tagsLower == Map(bookmark.tags, toLowerCase)
      HasSpace(f) == \E i \in 1..Len(f) : f[i] = " "
      exactPhrases == {f \in Range(filters.include) : HasSpace(f)}
      singleKeywords == {f \in Range(filters.include) : ~HasSpace(f)}
  IN  /\ \A ex \in Range(filters.exclude) : ~includes(text, ex)
      /\ filters.sites # <<>> =>
           \E site \in Range(filters.sites) : includes(urlLower, site)
      /\ filters.tags # <<>> =>
           \E tag \in Range(filters.tags) :
             \E t \in Range(tagsLower) : includes(t, tag)
      /\ \A phrase \in exactPhrases : includes(text, phrase)
      /\ singleKeywords # {} =>
           \E keyword \in singleKeywords : includes(text, keyword)

\* SearchParser.matches
matches(bookmark, filters) ==
  LET text == allText(bookmark)
      urlLower == toLowerCase(bookmark.url)
      tagsLower == Map(bookmark.tags, toLowerCase)
      HasSpace(f) == \E i \in 1..Len(f) : f[i] = " "
      exactPhrases == {f \in Range(filters.include) : HasSpace(f)}
      singleKeywords == {f \in Range(filters.include) : ~HasSpace(f)}
  IN  /\ \A ex \in Range(filters.exclude) : ~includes(text, ex)
      /\ filters.sites # <<>> =>
           \E site \in Range(filters.sites) : includes(urlLower, site)
      /\ filters.tags # <<>> =>
           \A tag \in Range(filters.tags) :
             \E t \in Range(tagsLower) : includes(t, tag)
      /\ \A phrase \in exactPhrases : includes(text, phrase)
      /\ singleKeywords # {} =>
           \E keyword \in singleKeywords : includes(text, keyword)

\* the sum of a sequence of numbers
RECURSIVE SumSeq(_)
SumSeq(ns) == IF ns = <<>> THEN 0 ELSE Head(ns) + SumSeq(Tail(ns))

\* the sum of F over the elements of a sequence
SumOver(s, F(_)) == SumSeq([i \in 1..Len(s) |-> F(s[i])])

\* a score that counts a tag filter once, however many tags of the record hold it
getScoreOncePerFilter(bookmark, filters) ==
  LET titleLower == toLowerCase(bookmark.title)
      urlLower == toLowerCase(bookmark.url)
      descLower == toLowerCase(bookmark.description)
      tagsLower == Map(bookmark.tags, toLowerCase)
      TitlePts(keyword) ==
        IF includes(titleLower, keyword)
        THEN 10 + (IF titleLower = keyword THEN 20 ELSE 0) ELSE 0
      UrlPts(keyword) == IF includes(urlLower, keyword) THEN 5 ELSE 0
      DescPts(keyword) == IF includes(descLower, keyword) THEN 3 ELSE 0
      TagPts(keyword) ==
        IF \E t \in 1..Len(tagsLower) : includes(tagsLower[t], keyword) THEN 7 ELSE 0
      SitePts(site) == IF includes(urlLower, site) THEN 5 ELSE 0
      FilterPts(tag) ==
        IF \E t \in 1..Len(tagsLower) : includes(tagsLower[t], tag) THEN 8 ELSE 0
  IN  SumOver(filters.include, TitlePts) + SumOver(filters.include, UrlPts)
      + SumOver(filters.include, DescPts) + SumOver(filters.include, TagPts)
      + SumOver(filters.sites, SitePts) + SumOver(filters.tags, FilterPts)

\* SearchParser.getScore
getScore(bookmark, filters) ==
  LET titleLower == toLowerCase(bookmark.title)
      urlLower == toLowerCase(bookmark.url)
      descLower == toLowerCase(bookmark.description)
      tagsLower == Map(bookmark.tags, toLowerCase)
      TitlePts(keyword) ==
        IF includes(titleLower, keyword)
        THEN 10 + (IF titleLower = keyword THEN 20 ELSE 0) ELSE 0
      UrlPts(keyword) == IF includes(urlLower, keyword) THEN 5 ELSE 0
      DescPts(keyword) == IF includes(descLower, keyword) THEN 3 ELSE 0
      TagPts(keyword) ==
        IF \E t \in 1..Len(tagsLower) : includes(tagsLower[t], keyword) THEN 7 ELSE 0
      SitePts(site) == IF includes(urlLower, site) THEN 5 ELSE 0
      FilterPts(tag) ==
        8 * Cardinality({t \in 1..Len(tagsLower) : includes(tagsLower[t], tag)})
  IN  SumOver(filters.include, TitlePts) + SumOver(filters.include, UrlPts)
      + SumOver(filters.include, DescPts) + SumOver(filters.include, TagPts)
      + SumOver(filters.sites, SitePts) + SumOver(filters.tags, FilterPts)

(***************************************************************************)
(* localSearch                                                             *)
(***************************************************************************)

\* the 0-based positions the loop of extractMatches visits from index on:
\* index, then indexOf(keyword, index + 1), until it is -1
RECURSIVE Occurrences(_, _, _)
Occurrences(lowered, keyword, index) ==
  IF index = -1 THEN <<>>
  ELSE <<index>> \o Occurrences(lowered, keyword, indexOf(lowered, keyword, index + 1))

\* { start: index, end: index + keyword.length, text: field.substring(start, end) }
MatchSpans(field, keyword, occ) ==
  [k \in 1..Len(occ) |->
     [start |-> occ[k], end |-> occ[k] + Len(keyword),
      text |-> substring(field, occ[k], occ[k] + Len(keyword))]]

\* the spans extractMatches pushes for one keyword in one field
FieldMatches(field, keyword) ==
  MatchSpans(field, keyword,
             Occurrences(toLowerCase(field), keyword,
                         indexOf(toLowerCase(field), keyword, 0)))

extractMatches(bookmark, keywords) ==
  [title |-> Flatten([k \in 1..Len(keywords) |-> FieldMatches(bookmark.title, keywords[k])]),
   url |-> Flatten([k \in 1..Len(keywords) |-> FieldMatches(bookmark.url, keywords[k])]),
   description |->
     Flatten([k \in 1..Len(keywords) |-> FieldMatches(bookmark.description, keywords[k])])]

\* Array.prototype.sort((a, b) => b.score - a.score): stable, descending
InsertAt(sorted, item, ahead) ==
  SubSeq(sorted, 1, ahead) \o <<item>> \o SubSeq(sorted, ahead + 1, Len(sorted))

RECURSIVE SortByScore(_)
SortByScore(items) ==
  IF items = <<>> THEN <<>>
  ELSE InsertAt(SortByScore(SubSeq(items, 1, Len(items) - 1)), items[Len(items)],
                Cardinality({i \in 1..(Len(items) - 1) :
                               items[i].score >= items[Len(items)].score}))

\* { ...item.bookmark, _score, _matches }
LocalResult(bookmark, score, filters) ==
  [id |-> bookmark.id, title |-> bookmark.title, url |-> bookmark.url,
   description |-> bookmark.description, tags |-> bookmark.tags,
   score |-> score, matches |-> extractMatches(bookmark, filters.include)]

\* a scoring that gives 0 to the records that do not match
ScoredFromZero(bookmarks, filters) ==
  [i \in 1..Len(bookmarks) |->
     [bookmark |-> bookmarks[i],
      score |-> IF matches(bookmarks[i], filters)
                THEN getScore(bookmarks[i], filters) ELSE 0]]

\* .map(bookmark => ({ bookmark, score }))
Scored(bookmarks, filters) ==
  [i \in 1..Len(bookmarks) |->
     [bookmark |-> bookmarks[i],
      score |-> IF matches(bookmarks[i], filters)
                THEN getScore(bookmarks[i], filters) ELSE -1]]

\* .filter(item => item.score >= minScore)
AtLeast(items, minScore) ==
  LET Passes(item) == item.score >= minScore
  IN  SelectSeq(items, Passes)

\* .map(item => ({ ...item.bookmark, _score, _matches }))
Annotated(kept, filters) ==
  [i \in 1..Len(kept) |-> LocalResult(kept[i].bookmark, kept[i].score, filters)]

\* localSearch once the query is parsed
localSearchWith(bookmarks, filters, limit, minScore) ==
  Annotated(Take(SortByScore(AtLeast(Scored(bookmarks, filters), minScore)), limit),
            filters)

localSearch(bookmarks, query, limit, minScore) ==
  IF IsBlank(query) THEN <<>>
  ELSE localSearchWith(bookmarks, parse(query), limit, minScore)

\* /tag:|site:|<exclude marker>:|"[^"]+"/.test(query): no i flag
isAdvancedQuery(query) ==
  \/ \E i \in 1..Len(query) :
       \/ StartsAt(query, TagMarker, i)
       \/ StartsAt(query, SiteMarker, i)
       \/ StartsAt(query, ExcludeMarker, i)
  \/ PhraseSpans(query, 1) # <<>>

\* getSearchStats, without the timestamp
getSearchStats(matched, query, totalBookmarks) ==
  [total |-> totalBookmarks, matched |-> matched, query |-> query,
   hasAdvanced |-> isAdvancedQuery(query)]

(***************************************************************************)
(* getSearchSuggestions                                                    *)
(***************************************************************************)

\* String.prototype.replace(pattern, '') with a pattern that is not global:
\* the first occurrence only
replaceFirst(s, pattern) ==
  LET index == indexOf(s, pattern, 0)
  IN  IF index = -1 THEN s
      ELSE SubSeq(s, 1, index) \o SubSeq(s, index + Len(pattern) + 1, Len(s))

\* query.split(':')[0]
beforeColon(s) ==
  LET index == indexOf(s, <<":">>, 0)
  IN  IF index = -1 THEN s ELSE SubSeq(s, 1, index)

TagPrefix == <<"t", "a", "g">>
TagPrefixZh == <<"biao", "qian">>
SitePrefix == <<"s", "i", "t", "e">>
SitePrefixZh == <<"zhan", "dian">>

commonSites ==
  << <<"g", "i", "t", "h", "u", "b", ".", "c", "o", "m">>,
     <<"s", "t", "a", "c", "k", "o", "v", "e", "r", "f", "l", "o", "w", ".", "c", "o", "m">>,
     <<"d", "e", "v", "e", "l", "o", "p", "e", "r", ".", "m", "o", "z", "i", "l", "l", "a",
       ".", "o", "r", "g">> >>

getSearchSuggestions(query, searchHistory, tags) ==
  LET queryLower == toLowerCase(query)
      prefix == toLowerCase(beforeColon(query))
      tagRest == trim(replaceFirst(queryLower, TagMarker))
      siteRest == trim(replaceFirst(queryLower, SiteMarker))
      TagHit(tag) == includes(toLowerCase(tag), tagRest)
      SiteHit(site) == includes(site, siteRest)
      HistoryHit(h) == startsWith(toLowerCase(h), queryLower)
      QuickHit(t) == includes(toLowerCase(t), queryLower)
      \* { type, text, label }; the label of a tag-quick suggestion is the tag
      \* inside a fixed caption, written here as the tag alone
      Suggest(type, list) ==
        [i \in 1..Len(list) |->
           [type |-> type,
            text |-> CASE type = "history" -> list[i]
                       [] type = "site" -> SiteMarker \o list[i]
                       [] OTHER -> TagMarker \o list[i],
            label |-> list[i]]]
  IN  IF includes(query, <<":">>)
      THEN IF prefix = TagPrefix \/ prefix = TagPrefixZh
           THEN Suggest("tag", SelectSeq(tags, TagHit))
           ELSE IF prefix = SitePrefix \/ prefix = SitePrefixZh
                THEN Suggest("site", SelectSeq(commonSites, SiteHit))
                ELSE <<>>
      ELSE Suggest("history", Take(SelectSeq(searchHistory, HistoryHit), 5))
           \o Suggest("tag-quick", Take(SelectSeq(tags, QuickHit), 3))

\* new Set() filled by allTags.add(t), then Array.from: first occurrences, in order
RECURSIVE Distinct(_)
Distinct(s) ==
  IF s = <<>> THEN <<>>
  ELSE LET front == Distinct(SubSeq(s, 1, Len(s) - 1))
       IN  IF s[Len(s)] \in Range(front) THEN front ELSE Append(front, s[Len(s)])

allTags(bookmarks) == Distinct(Flatten([i \in 1..Len(bookmarks) |-> bookmarks[i].tags]))

(***************************************************************************)
(* SearchHistory                                                           *)
(***************************************************************************)

HistoryMaxSize == 50

\* add without the removal of the entry that equals the query
addKeepsDuplicates(history, query) ==
  IF IsBlank(query) THEN history ELSE Take(<<trim(query)>> \o history, HistoryMaxSize)

\* SearchHistory.add, up to the save
add(history, query) ==
  IF IsBlank(query) THEN history
  ELSE LET q == trim(query)
           NotQ(h) == h # q
       IN  Take(<<q>> \o SelectSeq(history, NotQ), HistoryMaxSize)

\* SearchHistory.remove, up to the save
remove(history, query) ==
  LET NotQ(h) == h # query
  IN  SelectSeq(history, NotQ)

\* SearchHistory.getSuggestions
getSuggestions(history, query, limit) ==
  IF IsBlank(query) THEN Take(history, limit)
  ELSE LET Hit(h) == includes(toLowerCase(h), toLowerCase(query))
       IN  Take(SelectSeq(history, Hit), limit)

(***************************************************************************)
(* SearchCache                                                             *)
(***************************************************************************)

CacheMaxSize == 100
CacheTTL == 300000

\* the order Array.prototype.sort gives the bookmark ids (they are strings)
IdRank(id) ==
  CASE id = "b1" -> 1 [] id = "b2" -> 2 [] id = "b3" -> 3 [] OTHER -> 4

RECURSIVE sortIds(_)
sortIds(ids) ==
  IF ids = <<>> THEN <<>>
  ELSE LET last == ids[Len(ids)]
           front == sortIds(SubSeq(ids, 1, Len(ids) - 1))
           ahead == Cardinality({i \in 1..Len(front) : IdRank(front[i]) <= IdRank(last)})
       IN  SubSeq(front, 1, ahead) \o <<last>> \o SubSeq(front, ahead + 1, Len(front))

\* a getKey that joins the ids in the order they come in
getKeyUnsorted(query, bookmarkIds) ==
  query \o <<":">>
        \o join([i \in 1..Len(bookmarkIds) |-> <<bookmarkIds[i]>>], <<",">>)

\* `${query}:${bookmarkIds.sort().join(',')}`; an id is one symbol of the key
getKey(query, bookmarkIds) ==
  query \o <<":">>
        \o join([i \in 1..Len(bookmarkIds) |-> <<sortIds(bookmarkIds)[i]>>], <<",">>)

\* the cache is the Map's entries in insertion order
CacheKeys(cache) == {cache[i].key : i \in 1..Len(cache)}

CacheEntry(cache, key) == cache[CHOOSE i \in 1..Len(cache) : cache[i].key = key]

NoResults == [kind |-> "null"]

ListOf(items) == [kind |-> "list", items |-> items]

\* a get that does not look at the age of the entry
cacheGetForever(cache, query, bookmarkIds, now) ==
  IF getKey(query, bookmarkIds) \in {cache[i].key : i \in 1..Len(cache)}
  THEN [kind |-> "list",
        items |-> cache[CHOOSE i \in 1..Len(cache) :
                          cache[i].key = getKey(query, bookmarkIds)].results]
  ELSE [kind |-> "null"]

\* SearchCache.get: the cached results, or null
cacheGet(cache, query, bookmarkIds, now) ==
  LET key == getKey(query, bookmarkIds)
  IN  IF key \in CacheKeys(cache) /\ now - CacheEntry(cache, key).timestamp < CacheTTL
      THEN ListOf(CacheEntry(cache, key).results)
      ELSE NoResults

\* a set that makes room only once the cache holds more than maxSize entries
\* (> for >=)
cacheSetLate(cache, query, bookmarkIds, results, now) ==
  LET key == getKey(query, bookmarkIds)
      afterEvict == IF Len(cache) > CacheMaxSize THEN Tail(cache) ELSE cache
      entry == [key |-> key, results |-> results, timestamp |-> now]
  IN  IF key \in CacheKeys(afterEvict)
      THEN [i \in 1..Len(afterEvict) |->
              IF afterEvict[i].key = key THEN entry ELSE afterEvict[i]]
      ELSE Append(afterEvict, entry)

\* a set that deletes the key before it sets it, so that a key written again
\* moves behind the others
cacheSetRefreshes(cache, query, bookmarkIds, results, now) ==
  LET key == getKey(query, bookmarkIds)
      afterEvict == IF Len(cache) >= CacheMaxSize THEN Tail(cache) ELSE cache
      OtherKey(e) == e.key # key
  IN  Append(SelectSeq(afterEvict, OtherKey),
             [key |-> key, results |-> results, timestamp |-> now])

\* SearchCache.set
cacheSet(cache, query, bookmarkIds, results, now) ==
  LET key == getKey(query, bookmarkIds)
      afterEvict == IF Len(cache) >= CacheMaxSize THEN Tail(cache) ELSE cache
      entry == [key |-> key, results |-> results, timestamp |-> now]
  IN  IF key \in CacheKeys(afterEvict)
      THEN [i \in 1..Len(afterEvict) |->
              IF afterEvict[i].key = key THEN entry ELSE afterEvict[i]]
      ELSE Append(afterEvict, entry)

(***************************************************************************)
(* Values a call settles with                                              *)
(*   [kind |-> "list", items]      an array of (annotated) records         *)
(*   [kind |-> "null"]             the deferral sentinel                   *)
(*   [kind |-> "settled", ...]     an entry of Promise.allSettled          *)
(*   [kind |-> "envelope", ...]    { results, stats, suggestions }         *)
(*   [kind |-> "error", err]       a rejection                             *)
(***************************************************************************)

Rejected(err) == [kind |-> "error", err |-> err]

Fulfilled(value) == [kind |-> "settled", status |-> "fulfilled", value |-> value]

Envelope(results, stats, suggestions) ==
  [kind |-> "envelope", results |-> results, stats |-> stats, suggestions |-> suggestions]

\* results.length of a value that is not an array and not null
Undefined == "undefined"

(***************************************************************************)
(* semanticSearch (the OpenAI client) and performAISearch                  *)
(***************************************************************************)

PrefilterThreshold == 100

\* the records semanticSearch puts into the prompt
searchBookmarks(bookmarks, query) ==
  LET queryLower == toLowerCase(query)
      Hit(bm) ==
        \/ includes(toLowerCase(bm.title), queryLower)
        \/ includes(toLowerCase(bm.url), queryLower)
        \/ (bm.description # <<>> /\ includes(toLowerCase(bm.description), queryLower))
        \/ \E t \in 1..Len(bm.tags) : includes(toLowerCase(bm.tags[t]), queryLower)
  IN  IF Len(bookmarks) > PrefilterThreshold THEN SelectSeq(bookmarks, Hit) ELSE bookmarks

\* semanticSearch for a response of the completion service:
\*   [kind |-> "ids", ids]   content that parses, with results = ids
\*   [kind |-> "malformed"]  empty content, or content that is not JSON
\*   [kind |-> "failed"]     fetch rejects, or the status is not ok
\* gives the ids it returns, or Rejected
semanticSearch(bookmarks, query, response) ==
  LET validIds == {b.id : b \in Range(searchBookmarks(bookmarks, query))}
      Valid(id) == id \in validIds
  IN  CASE response.kind = "failed" -> Rejected("Transport")
        [] response.kind = "malformed" -> ListOf(<<>>)
        [] OTHER -> ListOf(SelectSeq(response.ids, Valid))

\* a result whose rank is its 0-based position
AIResultRankedFromZero(bookmark, index) ==
  [id |-> bookmark.id, title |-> bookmark.title, url |-> bookmark.url,
   description |-> bookmark.description, tags |-> bookmark.tags,
   score |-> 100 - index, aiRank |-> index, searchType |-> "ai"]

\* { ...bookmark, _score: 100 - index, _aiRank: index + 1, _searchType: 'ai' }
AIResult(bookmark, index) ==
  [id |-> bookmark.id, title |-> bookmark.title, url |-> bookmark.url,
   description |-> bookmark.description, tags |-> bookmark.tags,
   score |-> 100 - index, aiRank |-> index + 1, searchType |-> "ai"]

\* new Map(bookmarks.map(b => [b.id, b])).get(id): the last record with the id
ById(bookmarks, id) ==
  bookmarks[CHOOSE i \in 1..Len(bookmarks) :
              /\ bookmarks[i].id = id
              /\ \A j \in 1..Len(bookmarks) : bookmarks[j].id = id => j <= i]

\* performAISearch, given what semanticSearch returned
performAISearch(bookmarks, matchedIds) ==
  LET Known(id) == \E i \in 1..Len(bookmarks) : bookmarks[i].id = id
      found == SelectSeq(matchedIds, Known)
  IN  [i \in 1..Len(found) |-> AIResult(ById(bookmarks, found[i]), i - 1)]

\* a race that every settlement settles anew, as if the timeout were a flag
\* beside the call and not a promise raced against it
SettlesWhenever(race) == race # "none"

\* Promise.race([performAISearch(...), timeout]): a settlement of one of the two
\* promises settles the race only while the race is pending
Settles(race) == race = "pending"

\* aiSemanticSearch before the external call: what it returns at once
\* ([how, value]), or how = "call" when it goes on to the external call
aiSemanticSearchStart(query, bookmarks, config, fallbackToLocal, useCache, cache, now) ==
  LET bookmarkIds == [i \in 1..Len(bookmarks) |-> bookmarks[i].id]
      cached == cacheGet(cache, query, bookmarkIds, now)
  IN  IF IsBlank(query) THEN [how |-> "blank", value |-> ListOf(<<>>)]
      ELSE IF ~config.present \/ ~config.apiUrl \/ ~config.apiKey
           THEN [how |-> "unconfigured",
                 value |-> IF fallbackToLocal THEN NoResults ELSE ListOf(<<>>)]
           ELSE IF useCache /\ cached # NoResults
                THEN [how |-> "cached", value |-> cached]
                ELSE [how |-> "call", value |-> NoResults]

\* an aiSemanticSearch whose catch block returns null whatever fallbackToLocal is
aiSemanticSearchEndSwallows(raced, fallbackToLocal) ==
  IF raced.kind = "error" THEN [kind |-> "null"] ELSE raced

\* aiSemanticSearch after the race settled with raced (a list or a rejection):
\* what it returns
aiSemanticSearchEnd(raced, fallbackToLocal) ==
  IF raced.kind = "error"
  THEN IF fallbackToLocal THEN NoResults ELSE raced
  ELSE raced

\* the cache after the race settled with raced
aiSemanticSearchCache(raced, query, bookmarks, useCache, cache, now) ==
  IF raced.kind = "list" /\ useCache
  THEN cacheSet(cache, query, [i \in 1..Len(bookmarks) |-> bookmarks[i].id],
                raced.items, now)
  ELSE cache

(***************************************************************************)
(* hybridSearch and smartSearch                                            *)
(***************************************************************************)

\* the first entry of each id, in order (the seen set of mergeResults)
RECURSIVE FirstOfEachId(_)
FirstOfEachId(rs) ==
  IF rs = <<>> THEN <<>>
  ELSE LET front == FirstOfEachId(SubSeq(rs, 1, Len(rs) - 1))
           last == rs[Len(rs)]
       IN  IF \E i \in 1..Len(front) : front[i].id = last.id
           THEN front ELSE Append(front, last)

\* { ...result, _searchType: 'local' }
TagLocal(r) == [f \in DOMAIN r \cup {"searchType"} |->
                  IF f = "searchType" THEN "local" ELSE r[f]]

\* the second loop of mergeResults: merged after the first k local results
RECURSIVE AppendLocal(_, _, _, _)
AppendLocal(merged, localResults, k, limit) ==
  IF k = 0 THEN merged
  ELSE LET before == AppendLocal(merged, localResults, k - 1, limit)
           result == localResults[k]
       IN  IF (\A i \in 1..Len(before) : before[i].id # result.id) /\ Len(before) < limit
           THEN Append(before, TagLocal(result))
           ELSE before

\* a mergeResults whose first loop pushes every AI result, seen or not
mergeResultsKeepsAll(localResults, aiResults, limit) ==
  Take(AppendLocal(aiResults, localResults, Len(localResults), limit), limit)

mergeResults(localResults, aiResults, limit) ==
  Take(AppendLocal(FirstOfEachId(aiResults), localResults, Len(localResults), limit), limit)

\* an intersection that keeps the AI results whose id is among the local ones
intersectResultsOfAI(localResults, aiResults) ==
  LET localIds == {localResults[i].id : i \in 1..Len(localResults)}
      InLocal(r) == r.id \in localIds
  IN  SelectSeq(aiResults, InLocal)

\* intersectResults
intersectResults(localResults, aiResults) ==
  LET aiIds == {aiResults[i].id : i \in 1..Len(aiResults)}
      InAI(r) == r.id \in aiIds
  IN  SelectSeq(localResults, InAI)

\* a hybridSearch that awaits the two searches with Promise.all: the rejection
\* of the AI search is its own
hybridSearchAll(local, aiOutcome, options) ==
  IF aiOutcome.kind = "error" THEN aiOutcome
  ELSE IF aiOutcome.kind = "null" \/ aiOutcome.items = <<>> THEN ListOf(local)
  ELSE CASE options.mergeStrategy = "intersect" ->
              ListOf(intersectResults(local, aiOutcome.items))
         [] options.mergeStrategy = "ai-first" -> Fulfilled(aiOutcome.items)
         [] OTHER -> ListOf(mergeResults(local, aiOutcome.items, options.aiLimit))

\* hybridSearch once both searches have settled; aiOutcome is what
\* aiSemanticSearch returned or its rejection
hybridSearch(local, aiOutcome, options) ==
  LET ai == IF aiOutcome.kind = "error" THEN ListOf(<<>>) ELSE aiOutcome
  IN  IF ai.kind = "null" \/ ai.items = <<>> THEN ListOf(local)
      ELSE CASE options.mergeStrategy = "intersect" ->
                  ListOf(intersectResults(local, ai.items))
             [] options.mergeStrategy = "ai-first" -> Fulfilled(ai.items)
             [] OTHER -> ListOf(mergeResults(local, ai.items, options.aiLimit))

\* how a call reaches aiSemanticSearch: through hybridSearch (via "hybrid"), alone
\* ("direct") or after too few local results ("escalate"), with the local results
\* it holds by then; via "none": it settles with out and makes no AI search
ViaAI(via, fallbackToLocal, local) ==
  [via |-> via, fallbackToLocal |-> fallbackToLocal, local |-> local, out |-> NoResults]

NoAI(out) == [via |-> "none", fallbackToLocal |-> TRUE, local |-> <<>>, out |-> out]

\* hybridSearch up to the AI search
hybridSearchStart(query, bookmarks, options) ==
  ViaAI("hybrid", FALSE, localSearch(bookmarks, query, options.localLimit, 0))

\* a smartSearch that escalates at aiThreshold local results too (<= for <)
smartSearchLocalFirstInclusive(localResults, options) ==
  IF Len(localResults) <= options.aiThreshold
  THEN ViaAI("escalate", TRUE, localResults)
  ELSE NoAI(ListOf(localResults))

\* smartSearch once the local search has run, when neither preferAI nor useHybrid
\* is set
smartSearchLocalFirst(localResults, options) ==
  IF Len(localResults) < options.aiThreshold
  THEN ViaAI("escalate", TRUE, localResults)
  ELSE NoAI(ListOf(localResults))

\* a smartSearch that leaves a missing configuration to aiSemanticSearch
smartSearchNoLocalOnly(query, bookmarks, aiConfig, options) ==
  IF ~(aiConfig.present /\ aiConfig.apiUrl /\ aiConfig.apiKey)
  THEN ViaAI("direct", options.fallbackToLocal, <<>>)
  ELSE IF options.preferAI \/ options.useHybrid
       THEN IF options.useHybrid
            THEN hybridSearchStart(query, bookmarks, options)
            ELSE ViaAI("direct", options.fallbackToLocal, <<>>)
       ELSE smartSearchLocalFirst(
              localSearch(bookmarks, query, options.limit, options.minScore), options)

\* smartSearch up to the AI search
smartSearch(query, bookmarks, aiConfig, options) ==
  IF ~(aiConfig.present /\ aiConfig.apiUrl /\ aiConfig.apiKey)
  THEN NoAI(ListOf(localSearch(bookmarks, query, options.limit, options.minScore)))
  ELSE IF options.preferAI \/ options.useHybrid
       THEN IF options.useHybrid
            THEN hybridSearchStart(query, bookmarks, options)
            ELSE ViaAI("direct", options.fallbackToLocal, <<>>)
       ELSE smartSearchLocalFirst(
              localSearch(bookmarks, query, options.limit, options.minScore), options)

\* what the caller of aiSemanticSearch makes of the value aiValue it settled with
AfterAI(via, local, aiValue, options) ==
  CASE via = "hybrid" -> hybridSearch(local, aiValue, options)
    [] via = "escalate" -> IF aiValue.kind = "null" THEN ListOf(local) ELSE aiValue
    [] OTHER -> aiValue

(***************************************************************************)
(* search                                                                  *)
(***************************************************************************)

\* results.length
LengthOf(results) == IF results.kind = "list" THEN Len(results.items) ELSE Undefined

\* results.length > 0 (undefined > 0 is false)
HasEntries(results) == results.kind = "list" /\ Len(results.items) > 0

NoSave == [pending |-> FALSE, value |-> <<>>]

NoPartial == [results |-> NoResults, suggestions |-> <<>>]

Done(value, hist) ==
  [pc |-> "done", result |-> value, history |-> hist, save |-> NoSave,
   partial |-> NoPartial, fetch |-> FALSE]

\* getAISuggestions goes on to its fetch
SuggestionsFetch(query, config) ==
  /\ config.present /\ config.apiUrl /\ config.apiKey
  /\ Len(query) >= 2

\* search from the statistics on (index.js 176-221)
SearchAfterSave(c, results, hist) ==
  IF results.kind = "null" THEN Done(Rejected("TypeError"), hist)
  ELSE
    LET stats == getSearchStats(LengthOf(results), c.query, Len(c.bookmarks))
        suggestionList ==
          IF c.options.suggestions
          THEN getSearchSuggestions(c.query, getSuggestions(hist, c.query, 5),
                                    allTags(c.bookmarks))
          ELSE <<>>
    IN  IF /\ c.options.suggestions /\ c.options.useAI /\ c.config.present
           /\ SuggestionsFetch(c.query, c.config)
        THEN [pc |-> "awaitSuggest", result |-> NoResults, history |-> hist,
              save |-> NoSave,
              partial |-> [results |-> results, suggestions |-> suggestionList],
              fetch |-> TRUE]
        ELSE Done(Envelope(results, stats, suggestionList), hist)

\* search from the results of the search on (index.js 171-174)
SearchAfterResults(c, results, hist) ==
  IF results.kind = "error" THEN Done(results, hist)
  ELSE IF c.options.history /\ results.kind = "null"
       THEN Done(Rejected("TypeError"), hist)
       ELSE IF c.options.history /\ HasEntries(results)
            THEN [pc |-> "awaitSave", result |-> NoResults,
                  history |-> add(hist, c.query),
                  save |-> [pending |-> TRUE, value |-> add(hist, c.query)],
                  partial |-> [results |-> results, suggestions |-> <<>>],
                  fetch |-> FALSE]
            ELSE SearchAfterSave(c, results, hist)

\* the call c goes on with the value out of its search
Continue(c, out, hist) ==
  IF c.entry = "search" THEN SearchAfterResults(c, out, hist) ELSE Done(out, hist)

(***************************************************************************)
(* Inputs                                                                  *)
(***************************************************************************)

B1 == [id |-> "b1", title |-> <<"a", "b">>, url |-> <<"x", "y">>,
       description |-> <<>>, tags |-> << <<"t">> >>]
B2 == [id |-> "b2", title |-> <<"A">>, url |-> <<"x", "y", "b">>,
       description |-> <<"a">>, tags |-> <<>>]
B3 == [id |-> "b3", title |-> <<"c">>, url |-> <<"x", "y">>,
       description |-> <<>>, tags |-> << <<"t">> >>]

AllRecords == <<B1, B2, B3>>

RecordLists == {AllRecords, <<B2>>}

QEmpty == <<>>
QBlank == <<" ">>
QA == <<"a">>
QXY == <<"x", "y">>

Queries == {QEmpty, QBlank, QA, QXY}

\* aiConfig: null (present = FALSE), or an object; a field is TRUE when it is set
\* to a non-empty string
NullConfig == [present |-> FALSE, apiUrl |-> FALSE, apiKey |-> FALSE, model |-> FALSE]
FullConfig == [present |-> TRUE, apiUrl |-> TRUE, apiKey |-> TRUE, model |-> TRUE]

Configs ==
  {NullConfig, FullConfig,
   [FullConfig EXCEPT !.apiUrl = FALSE],
   [FullConfig EXCEPT !.apiKey = FALSE],
   [FullConfig EXCEPT !.model = FALSE]}

\* the defaults of the destructured options
DefaultOptions ==
  [limit |-> 50, minScore |-> 0,
   fallbackToLocal |-> TRUE, useCache |-> TRUE, timeout |-> 10000,
   localLimit |-> 50, aiLimit |-> 20, mergeStrategy |-> "union",
   preferAI |-> FALSE, aiThreshold |-> 5, useHybrid |-> TRUE,
   history |-> TRUE, suggestions |-> FALSE, useAI |-> TRUE]

MergeStrategies == {"union", "intersect", "ai-first"}

\* the options a call is made with: the options its entry point reads or hands
\* on are varied, the others are left out of the call (and so at their defaults)
OptionsOf(entry) ==
  CASE entry = "aiSemanticSearch" ->
         {[DefaultOptions EXCEPT !.fallbackToLocal = f, !.useCache = u] :
            f \in BOOLEAN, u \in BOOLEAN}
    [] entry = "hybridSearch" ->
         {[DefaultOptions EXCEPT !.mergeStrategy = m, !.aiLimit = al, !.localLimit = ll] :
            m \in MergeStrategies, al \in {20, 2}, ll \in {50, 1}}
    [] entry = "smartSearch" ->
         {[DefaultOptions EXCEPT !.preferAI = p, !.useHybrid = h, !.aiThreshold = t,
                                 !.mergeStrategy = m, !.fallbackToLocal = f] :
            p \in BOOLEAN, h \in BOOLEAN, t \in {5, 2}, m \in MergeStrategies,
            f \in BOOLEAN}
    [] OTHER ->
         {[DefaultOptions EXCEPT !.useAI = u, !.suggestions = s, !.history = hi,
                                 !.preferAI = p, !.useHybrid = h, !.mergeStrategy = m] :
            u \in BOOLEAN, s \in BOOLEAN, hi \in BOOLEAN, p \in BOOLEAN,
            h \in BOOLEAN, m \in MergeStrategies}

\* the configurations a call is made with: the model identifier is left out
\* only where the entry point is the one that would have to look at it
ConfigsOf(entry) ==
  IF entry = "aiSemanticSearch" THEN Configs
  ELSE {c \in Configs : c.model \/ ~c.present} \ {[FullConfig EXCEPT !.apiUrl = FALSE]}

\* the longest id list the completion service answers with
MaxAIIds == 2

\* the ids the completion service may name; "b3" is the id of no record of the
\* shorter record list
AIIds == {"b2", "b3"}

RECURSIVE SeqsUpTo(_, _)
SeqsUpTo(S, n) ==
  IF n = 0 THEN {<<>>}
  ELSE LET shorter == SeqsUpTo(S, n - 1)
       IN  shorter \cup {Append(q, x) : q \in {t \in shorter : Len(t) = n - 1}, x \in S}

Responses ==
  {[kind |-> "ids", ids |-> ids] : ids \in SeqsUpTo(AIIds, MaxAIIds)}
  \cup {[kind |-> "malformed", ids |-> <<>>], [kind |-> "failed", ids |-> <<>>]}

\* the suggestions the completion service may answer getAISuggestions with
AISuggestionLists == {<<>>, <<QA>>}

\* the history a previous run of the extension left in storage
StoredHistories == {<<>>, <<QXY>>}

\* the time at which the model starts
StartTime == CacheTTL

\* the cache at the start: empty, or as an earlier search for QXY over
\* AllRecords left it, one millisecond or a whole time-to-live ago
InitCaches ==
  {<<>>}
  \cup {cacheSet(<<>>, QXY, [i \in 1..Len(AllRecords) |-> AllRecords[i].id],
                 performAISearch(AllRecords, <<"b3", "b2">>), t) :
          t \in {StartTime - 1, StartTime - CacheTTL}}

(***************************************************************************)
(* State                                                                   *)
(***************************************************************************)

VARIABLES
  pc,           \* "idle", "awaitAI", "awaitSave", "awaitSuggest" or "done"
  call,         \* the call: [entry, query, bookmarks, config, options]
  frame,        \* how the call reached aiSemanticSearch: [via, fallbackToLocal, local]
  partial,      \* what search holds across its awaits: [results, suggestions]
  result,       \* what the call settled with
  searchCache,  \* the entries of searchCache.cache, in insertion order
  now,          \* Date.now()
  history,      \* searchHistory.history
  storage,      \* the list stored under 'searchHistory'
  loadState,    \* the load the constructor started: "pending" or "done"
  loadResult,   \* what its storage get returns
  save,         \* the storage set a save has issued: [pending, value]
  race,         \* the Promise.race of aiSemanticSearch: "none", "pending", "settled"
  ext,          \* the call of semanticSearch: "none", "inflight", "done"
  timer,        \* the timeout's timer: "none", "armed", "fired"
  deadline,     \* when the timer fires
  fetch,        \* the fetch of getAISuggestions is in flight
  aiEnd,        \* how aiSemanticSearch ended: "none", "blank", "unconfigured",
                \* "cached", "ok", "threw", "timeout"
  aiValue,      \* what aiSemanticSearch settled with
  aiCalls,      \* the calls of semanticSearch made
  log,          \* what happened, in order: the answers of the completion service
                \* and the calls made on the cache, the history and localSearch
  born,         \* for each key of the cache, the number of its insertion
  queued,       \* the values of the saves issued behind the pending one, in order
  check         \* the broken-link check: [phase, db, bookmarks, concurrency, results,
                \* brokenLinks, completed, progress, response]

vars ==
  <<pc, call, frame, partial, result, searchCache, now, history, storage, loadState,
    loadResult, save, race, ext, timer, deadline, fetch, aiEnd, aiValue, aiCalls,
    log, born, queued, check>>

NoCall ==
  [entry |-> "none", query |-> <<>>, bookmarks |-> <<>>, config |-> NullConfig,
   options |-> DefaultOptions]

NoFrame == [via |-> "none", fallbackToLocal |-> TRUE, local |-> <<>>]

\* no broken-link check has been asked for
NoCheck ==
  [phase |-> "none", db |-> <<>>, bookmarks |-> <<>>, concurrency |-> 0, results |-> <<>>,
   brokenLinks |-> <<>>, completed |-> 0, progress |-> <<>>, response |-> [kind |-> "none"]]

Init ==
  /\ pc = "idle"
  /\ call = NoCall
  /\ frame = NoFrame
  /\ partial = NoPartial
  /\ result = NoResults
  /\ searchCache \in InitCaches
  /\ now = StartTime
  /\ history = <<>>
  /\ storage \in StoredHistories
  /\ loadState = "pending"
  /\ loadResult = storage
  /\ save = NoSave
  /\ race = "none"
  /\ ext = "none"
  /\ timer = "none"
  /\ deadline = 0
  /\ fetch = FALSE
  /\ aiEnd = "none"
  /\ aiValue = NoResults
  /\ aiCalls = 0
  /\ log = <<>>
  /\ born = <<>>
  /\ queued = <<>>
  /\ check = NoCheck

(***************************************************************************)
(* Actions                                                                 *)
(***************************************************************************)

\* the call moves on as the record next says
Goes(next) ==
  /\ pc' = next.pc
  /\ result' = next.result
  /\ history' = next.history
  /\ save' = next.save
  /\ partial' = next.partial
  /\ fetch' = next.fetch

\* search(query, bookmarks) with an empty query (index.js 143-156)
EmptyEnvelope(c) ==
  Envelope(ListOf(<<>>),
           [total |-> Len(c.bookmarks), matched |-> 0, query |-> <<>>,
            hasAdvanced |-> FALSE],
           <<>>)

\* how the call c reaches the AI search, or the value it has without it
Route(c) ==
  CASE c.entry = "aiSemanticSearch" -> ViaAI("direct", c.options.fallbackToLocal, <<>>)
    [] c.entry = "hybridSearch" -> hybridSearchStart(c.query, c.bookmarks, c.options)
    [] c.entry = "smartSearch" ->
         smartSearch(c.query, c.bookmarks, c.config, c.options)
    [] OTHER ->
         IF c.options.useAI /\ c.config.present
         THEN smartSearch(c.query, c.bookmarks, c.config, c.options)
         ELSE NoAI(ListOf(localSearch(c.bookmarks, c.query, c.options.limit,
                                      c.options.minScore)))

\* the call c is made, reaches the AI search as r says, and aiSemanticSearch
\* begins as start says
Starts(c, r, start) ==
  /\ call' = c
  /\ IF c.entry = "search" /\ IsBlank(c.query)
     THEN /\ Goes(Done(EmptyEnvelope(c), history))
          /\ UNCHANGED <<frame, race, ext, timer, deadline, aiEnd, aiValue, aiCalls>>
     ELSE IF r.via = "none" \/ start.how # "call"
     THEN /\ Goes(Continue(c, IF r.via = "none" THEN r.out
                              ELSE AfterAI(r.via, r.local, start.value, c.options),
                           history))
          /\ frame' = IF r.via = "none" THEN frame
                      ELSE [via |-> r.via, fallbackToLocal |-> r.fallbackToLocal,
                            local |-> r.local]
          /\ aiEnd' = IF r.via = "none" THEN aiEnd ELSE start.how
          /\ aiValue' = IF r.via = "none" THEN aiValue ELSE start.value
          /\ UNCHANGED <<race, ext, timer, deadline, aiCalls>>
     ELSE /\ pc' = "awaitAI"
          /\ frame' = [via |-> r.via, fallbackToLocal |-> r.fallbackToLocal,
                       local |-> r.local]
          /\ race' = "pending"
          /\ ext' = "inflight"
          /\ timer' = "armed"
          /\ deadline' = now + c.options.timeout
          /\ aiCalls' = aiCalls + 1
          /\ UNCHANGED <<result, history, save, partial, fetch, aiEnd, aiValue>>

\* the call c is made and reaches the AI search as r says
Reaches(c, r) ==
  Starts(c, r, aiSemanticSearchStart(c.query, c.bookmarks, c.config, r.fallbackToLocal,
                                     c.options.useCache, searchCache, now))

Calls(c) == Reaches(c, Route(c))

\* a caller calls one of the entry points; the call runs to its first await on
\* the completion service or on storage, or to its end
Call(entries) ==
  /\ pc = "idle"
  /\ \E entry \in entries, query \in Queries, bookmarks \in RecordLists :
       \E config \in ConfigsOf(entry), options \in OptionsOf(entry) :
         Calls([entry |-> entry, query |-> query, bookmarks |-> bookmarks,
                config |-> config, options |-> options])
  /\ UNCHANGED <<searchCache, now, storage, loadState, loadResult, log, born, queued,
                 check>>

\* aiSemanticSearch returns value (how says how it ended) and its callers run on
Returns(value, how) ==
  /\ aiEnd' = how
  /\ aiValue' = value
  /\ Goes(Continue(call, AfterAI(frame.via, frame.local, value, call.options), history))

\* the race of aiSemanticSearch settles with raced at the time at: the cache is
\* written, aiSemanticSearch returns and its callers run on
RaceSettled(raced, how, at) ==
  /\ race' = "settled"
  /\ searchCache' = aiSemanticSearchCache(raced, call.query, call.bookmarks,
                                          call.options.useCache, searchCache, at)
  /\ Returns(aiSemanticSearchEnd(raced, frame.fallbackToLocal), how)

\* one of the two promises of the race settles with raced
Raced(raced, how, at) ==
  IF Settles(race)
  THEN RaceSettled(raced, how, at)
  ELSE UNCHANGED <<pc, result, history, save, partial, fetch, race, searchCache,
                   aiEnd, aiValue>>

\* performAISearch settles, given what semanticSearch settled with
performAISearchSettles(matched) ==
  IF matched.kind = "error"
  THEN Raced(matched, "threw", now')
  ELSE Raced(ListOf(performAISearch(call.bookmarks, matched.items)), "ok", now')

\* the completion service answers the call of semanticSearch
AIRespond ==
  /\ ext = "inflight"
  /\ ext' = "done"
  /\ now' = now + 1
  /\ \E response \in Responses :
       /\ log' = Append(log, [name |-> "answer", response |-> response])
       /\ performAISearchSettles(semanticSearch(call.bookmarks, call.query, response))
  /\ UNCHANGED <<call, frame, storage, loadState, loadResult, timer, deadline, aiCalls,
                 born, queued, check>>

\* the timer of the timeout fires
TimeoutFire ==
  /\ timer = "armed"
  /\ timer' = "fired"
  /\ now' = IF now < deadline THEN deadline ELSE now
  /\ Raced(Rejected("SearchTimeout"), "timeout", now')
  /\ UNCHANGED <<call, frame, storage, loadState, loadResult, ext, deadline, aiCalls,
                 log, born, queued, check>>

\* storage completes the set of SearchHistory.save, and takes up the set issued
\* behind it; search runs on
SaveDone ==
  /\ save.pending
  /\ storage' = save.value
  /\ IF pc = "awaitSave"
     THEN Goes(SearchAfterSave(call, partial.results, history)) /\ UNCHANGED queued
     ELSE /\ save' = IF queued = <<>> THEN NoSave
                     ELSE [pending |-> TRUE, value |-> Head(queued)]
          /\ queued' = IF queued = <<>> THEN <<>> ELSE Tail(queued)
          /\ UNCHANGED <<pc, result, history, partial, fetch>>
  /\ UNCHANGED <<call, frame, searchCache, now, loadState, loadResult, race, ext, timer,
                 deadline, aiEnd, aiValue, aiCalls, log, born, check>>

\* storage completes the get of SearchHistory.load
LoadDone ==
  /\ loadState = "pending"
  /\ loadState' = "done"
  /\ history' = loadResult
  /\ UNCHANGED <<pc, call, frame, partial, result, searchCache, now, storage, loadResult,
                 save, race, ext, timer, deadline, fetch, aiEnd, aiValue, aiCalls, log,
                 born, queued, check>>

\* the completion service answers the fetch of getAISuggestions with content that
\* parses and holds the suggestions list
SuggestRespond ==
  /\ fetch
  /\ \E list \in AISuggestionLists :
       LET aiSuggestions == [i \in 1..Len(list) |->
                               [type |-> "ai", text |-> list[i], label |-> list[i]]]
       IN  Goes(Done(Envelope(partial.results,
                              getSearchStats(LengthOf(partial.results), call.query,
                                             Len(call.bookmarks)),
                              partial.suggestions \o aiSuggestions),
                     history))
  /\ UNCHANGED <<call, frame, searchCache, now, storage, loadState, loadResult, race,
                 ext, timer, deadline, aiEnd, aiValue, aiCalls, log,
                 born, queued, check>>

\* the fetch of getAISuggestions fails, or its answer does not parse:
\* getAISuggestions returns []
SuggestFail ==
  /\ fetch
  /\ Goes(Done(Envelope(partial.results,
                        getSearchStats(LengthOf(partial.results), call.query,
                                       Len(call.bookmarks)),
                        partial.suggestions),
               history))
  /\ UNCHANGED <<call, frame, searchCache, now, storage, loadState, loadResult, race,
                 ext, timer, deadline, aiEnd, aiValue, aiCalls, log,
                 born, queued, check>>

\* the searches a caller can call besides search
SearchEntries == {"aiSemanticSearch", "hybridSearch", "smartSearch"}

CallSearchEntry == Call(SearchEntries)

Next ==
  \/ CallSearchEntry
  \/ AIRespond
  \/ TimeoutFire

\* the history plays no part in the three searches
SearchInit == Init /\ storage = <<>>

Spec == SearchInit /\ [][Next]_vars

CallSearch == Call({"search"})

UnifiedNext ==
  \/ CallSearch
  \/ AIRespond
  \/ TimeoutFire
  \/ SaveDone
  \/ LoadDone
  \/ SuggestRespond
  \/ SuggestFail

\* the unified search interface, search, with the search history
UnifiedSpec == Init /\ [][UnifiedNext]_vars

\* the extension starts for the first time: nothing is cached or stored
FreshInit == Init /\ searchCache = <<>> /\ storage = <<>>

\* search from a fresh start, where timers fire and storage answers; the
\* completion service need not
FairUnifiedSpec ==
  /\ FreshInit /\ [][UnifiedNext]_vars
  /\ WF_vars(TimeoutFire) /\ WF_vars(SaveDone) /\ WF_vars(LoadDone)

(***************************************************************************)
(* Calls on the search cache                                               *)
(***************************************************************************)

\* the variables of a search in progress and of the history
searchVars ==
  <<pc, call, frame, partial, result, history, storage, loadState, loadResult, save,
    race, ext, timer, deadline, fetch, aiEnd, aiValue, aiCalls, queued, check>>

\* nothing is in progress, and the history is empty
NoSearch ==
  /\ check = NoCheck
  /\ pc = "idle"
  /\ call = NoCall
  /\ frame = NoFrame
  /\ partial = NoPartial
  /\ result = NoResults
  /\ history = <<>>
  /\ storage = <<>>
  /\ loadState = "pending"
  /\ loadResult = <<>>
  /\ save = NoSave
  /\ queued = <<>>
  /\ race = "none"
  /\ ext = "none"
  /\ timer = "none"
  /\ deadline = 0
  /\ fetch = FALSE
  /\ aiEnd = "none"
  /\ aiValue = NoResults
  /\ aiCalls = 0

\* the most calls made on the cache, and the most calls made on the history
MaxCalls == 3

Digits == <<"0", "1", "2", "3", "4", "5", "6", "7", "8", "9">>

\* the query "00", "01", ..., "99"
Numeral(n) == <<Digits[(n \div 10) + 1], Digits[(n % 10) + 1]>>

BothIds == <<"b1", "b2">>

\* the results a caller puts into the cache
ResultLists == {<<>>, performAISearch(AllRecords, <<"b2">>)}

\* the cache after the searches "00", "01", ... (n of them, fewer than the cache
\* takes) have been cached in this order, one in two a whole time-to-live ago
FilledCache(n) ==
  [i \in 1..n |->
     [key |-> getKey(Numeral(i - 1), BothIds), results |-> <<>>,
      timestamp |-> IF i % 2 = 1 THEN StartTime - CacheTTL ELSE StartTime - 1]]

FullCache == FilledCache(CacheMaxSize)

\* a call on the cache, as the log keeps it
CacheCall(name, query, ids, results, got) ==
  [name |-> name, query |-> query, ids |-> ids, results |-> results, at |-> now,
   got |-> got]

\* the number of the next insertion
NextBirth ==
  LET numbers == {born[k] : k \in DOMAIN born}
  IN  IF numbers = {} THEN 1
      ELSE 1 + CHOOSE m \in numbers : \A n \in numbers : n <= m

\* SearchCache.set inserts key: the key is new, or it is the first key of a full
\* cache, which set deletes before it sets the key
Inserts(cache, key) ==
  \/ key \notin CacheKeys(cache)
  \/ Len(cache) >= CacheMaxSize /\ cache[1].key = key

\* the insertion numbers after set(key) took the cache from before to after
BornAfterSet(before, after, key) ==
  [k \in CacheKeys(after) |-> IF k = key /\ Inserts(before, key) THEN NextBirth ELSE born[k]]

\* searchCache.set(query, ids, results)
SetCall(query, ids, results) ==
  /\ Len(log) < MaxCalls
  /\ searchCache' = cacheSet(searchCache, query, ids, results, now)
  /\ born' = BornAfterSet(searchCache, searchCache', getKey(query, ids))
  /\ log' = Append(log, CacheCall("set", query, ids, results, NoResults))
  /\ UNCHANGED <<searchVars, now>>

\* searchCache.get(query, ids)
GetCall(query, ids) ==
  /\ Len(log) < MaxCalls
  /\ log' = Append(log, CacheCall("get", query, ids, <<>>,
                                  cacheGet(searchCache, query, ids, now)))
  /\ UNCHANGED <<searchVars, searchCache, now, born>>

\* clearSearchCache()
CacheClear ==
  /\ Len(log) < MaxCalls
  /\ searchCache' = <<>>
  /\ born' = <<>>
  /\ log' = Append(log, CacheCall("clear", <<>>, <<>>, <<>>, NoResults))
  /\ UNCHANGED <<searchVars, now>>

\* the queries cached at a full cache: the first two of it, and two new ones
FullCacheQueries == {Numeral(0), Numeral(1), QA, QXY}

CacheSet ==
  \E query \in FullCacheQueries, results \in ResultLists : SetCall(query, BothIds, results)

CacheGet == \E query \in FullCacheQueries : GetCall(query, BothIds)

CacheNext == CacheSet \/ CacheGet \/ CacheClear

CacheInit ==
  /\ NoSearch
  /\ now = StartTime
  /\ log = <<>>
  /\ \/ searchCache = <<>> /\ born = <<>>
     \/ /\ searchCache = FullCache
        /\ born = [k \in CacheKeys(FullCache) |->
                     CHOOSE i \in 1..Len(FullCache) : FullCache[i].key = k]

\* the cache, empty or full, under calls made at one time
CacheSpec == CacheInit /\ [][CacheNext]_vars

\* the orders the ids of a call come in
IdOrders == {BothIds, <<"b2", "b1">>}

TimedSet == \E ids \in IdOrders, results \in ResultLists : SetCall(QA, ids, results)

TimedGet == \E ids \in IdOrders : GetCall(QA, ids)

\* time passes: the time-to-live, or a millisecond less or more
Tick ==
  /\ now < StartTime + CacheTTL
  /\ \E d \in {CacheTTL - 1, CacheTTL, CacheTTL + 1} : now' = now + d
  /\ UNCHANGED <<searchVars, searchCache, log, born>>

TimedNext == TimedSet \/ TimedGet \/ CacheClear \/ Tick

TimedInit ==
  /\ NoSearch
  /\ now = StartTime
  /\ log = <<>>
  /\ searchCache = <<>>
  /\ born = <<>>

\* the cache under calls for one query, as time passes
TimedCacheSpec == TimedInit /\ [][TimedNext]_vars

(***************************************************************************)
(* Calls on the search history                                             *)
(***************************************************************************)

\* no search is in progress and no save is under way
Quiet ==
  /\ check = NoCheck
  /\ pc = "idle"
  /\ call = NoCall
  /\ frame = NoFrame
  /\ partial = NoPartial
  /\ result = NoResults
  /\ save = NoSave
  /\ queued = <<>>
  /\ race = "none"
  /\ ext = "none"
  /\ timer = "none"
  /\ deadline = 0
  /\ fetch = FALSE
  /\ aiEnd = "none"
  /\ aiValue = NoResults
  /\ aiCalls = 0

\* what a call on the history leaves alone
historyFrame ==
  <<pc, call, frame, partial, result, searchCache, now, storage, loadState, loadResult,
    race, ext, timer, deadline, fetch, aiEnd, aiValue, aiCalls, born, check>>

\* a call on the history, as the log keeps it; loaded: the load had completed
HistoryCall(name, query) == [name |-> name, query |-> query, loaded |-> loadState = "done"]

\* the queries "00", "01", ... added before the model starts: one fewer than the
\* history takes
Prefilled == HistoryMaxSize - 1

PrefilledHistory == [i \in 1..Prefilled |-> Numeral(Prefilled - i)]

PrefilledLog == [i \in 1..Prefilled |-> [name |-> "add", query |-> Numeral(i - 1), loaded |-> TRUE]]

\* the calls made since the model started
CallsMade == IF Len(log) >= Prefilled THEN Len(log) - Prefilled ELSE Len(log)

\* SearchHistory.save: chrome.storage.local.set is issued with the list as it is
\* now, behind the sets under way
IssueSave(value) ==
  IF save.pending
  THEN queued' = Append(queued, value) /\ UNCHANGED save
  ELSE save' = [pending |-> TRUE, value |-> value] /\ UNCHANGED queued

\* "50" between spaces
QPadded == <<" ">> \o Numeral(Prefilled + 1) \o <<" ">>

\* the queries added: the oldest and the newest of the filled history, two new
\* ones, a blank one, and a new one between spaces
HistoryQueries ==
  {Numeral(0), Numeral(Prefilled - 1), Numeral(Prefilled), Numeral(Prefilled + 1), QBlank,
   QPadded}

\* searchHistory.add(query)
HistoryAdd ==
  \E query \in HistoryQueries :
    /\ CallsMade < MaxCalls
    /\ history' = add(history, query)
    /\ IF IsBlank(query) THEN UNCHANGED <<save, queued>> ELSE IssueSave(history')
    /\ log' = Append(log, HistoryCall("add", query))
    /\ UNCHANGED historyFrame

\* searchHistory.remove(query)
HistoryRemove ==
  \E query \in {Numeral(0), Numeral(Prefilled)} :
    /\ CallsMade < MaxCalls
    /\ history' = remove(history, query)
    /\ IssueSave(history')
    /\ log' = Append(log, HistoryCall("remove", query))
    /\ UNCHANGED historyFrame

\* searchHistory.clear()
HistoryClear ==
  /\ CallsMade < MaxCalls
  /\ history' = <<>>
  /\ IssueSave(history')
  /\ log' = Append(log, HistoryCall("clear", <<>>))
  /\ UNCHANGED historyFrame

HistoryNext == HistoryAdd \/ HistoryRemove \/ HistoryClear \/ SaveDone \/ LoadDone

\* the module has just been loaded, or the history has been loaded empty and been
\* filled and saved since
HistoryInit ==
  /\ Quiet
  /\ searchCache = <<>>
  /\ born = <<>>
  /\ now = StartTime
  /\ \/ /\ history = <<>>
        /\ storage \in StoredHistories
        /\ loadState = "pending"
        /\ loadResult = storage
        /\ log = <<>>
     \/ /\ history = PrefilledHistory
        /\ storage = PrefilledHistory
        /\ loadState = "done"
        /\ loadResult = <<>>
        /\ log = PrefilledLog

\* the history under calls, while the load and the saves complete
HistorySpec == HistoryInit /\ [][HistoryNext]_vars

(***************************************************************************)
(* Calls of localSearch                                                    *)
(***************************************************************************)

\* what stands in a query beside the exclude token: nothing, a keyword, two
\* keywords, a tag filter, a site filter, a phrase
QueryRests ==
  {<<>>, QA, <<"A", " ", "c">>, TagMarker \o <<"t">>, SiteMarker \o <<"x", "y">>,
   <<Quote, "b", " ", "x", Quote>>}

\* the exclude tokens of a query; <<>>: the query has none
ExcludeTokens == {<<>>, <<"t">>, <<"T">>, <<"A">>, <<"c">>}

\* the query with rest and the exclude token
QueryOf(rest, token) ==
  IF token = <<>> THEN rest
  ELSE IF rest = <<>> THEN ExcludeMarker \o token
  ELSE rest \o <<" ">> \o ExcludeMarker \o token

\* options.limit and options.minScore of the calls
Limits == {0, 1, 2, 50}
MinScores == {-1, 0, 1, 11}

\* localSearch(bookmarks, query, { limit, minScore })
LocalCall ==
  /\ pc = "idle"
  /\ \E rest \in QueryRests, token \in ExcludeTokens, bookmarks \in RecordLists :
       \E limit \in Limits, minScore \in MinScores :
         /\ call' = [entry |-> "localSearch", query |-> QueryOf(rest, token),
                     bookmarks |-> bookmarks, config |-> NullConfig,
                     options |-> [DefaultOptions EXCEPT !.limit = limit,
                                                        !.minScore = minScore]]
         /\ result' = ListOf(localSearch(bookmarks, QueryOf(rest, token), limit, minScore))
         /\ log' = Append(log, [name |-> "localSearch", rest |-> rest, exclude |-> token])
  /\ pc' = "done"
  /\ UNCHANGED <<frame, partial, searchCache, now, history, storage, loadState, loadResult,
                 save, race, ext, timer, deadline, fetch, aiEnd, aiValue, aiCalls, born,
                 queued, check>>

LocalNext == LocalCall

LocalInit == NoSearch /\ now = StartTime /\ log = <<>> /\ searchCache = <<>> /\ born = <<>>

\* localSearch, called once
LocalSpec == LocalInit /\ [][LocalNext]_vars

(***************************************************************************)
(* Calls of the parser, of extractMatches and of isAdvancedQuery           *)
(***************************************************************************)

B4 == [id |-> "b4", title |-> <<"A", "a", "a">>, url |-> <<"x">>,
       description |-> <<"a", " ", "c", " ", "b">>, tags |-> << <<"T">>, <<"u">> >>]
B5 == [id |-> "b5", title |-> <<"A", " ", "b">>, url |-> <<"z">>,
       description |-> <<>>, tags |-> << <<"t", "u">>, <<"u", "t">> >>]
B6 == [id |-> "b6", title |-> <<"c">>, url |-> <<"z">>,
       description |-> <<"a">>, tags |-> <<>>]

ParsedRecords == {B1, B2, B3, B4, B5, B6}

\* the parts a query is written from: the tokens of its tag filters, of its site
\* filters and of its exclude filters, its quoted phrases and its keywords
TagTokenLists == {<<>>, << <<"t">> >>, << <<"t">>, <<"u">> >>, << <<"T">> >>}
SiteTokenLists == {<<>>, << <<"x", "y">> >>}
ExcludeTokenLists == {<<>>, << <<"c">> >>}
PhraseLists == {<<>>, << <<"a", " ", "b">> >>, << <<"a">> >>}
KeywordLists == {<<>>, << <<"a">> >>, << <<"A">>, <<"c">> >>, << <<"a", "a">> >>}

UpperTagMarker == <<"T", "A", "G", ":">>
MixedSiteMarker == <<"s", "i", "T", "e", ":">>

QueryParts ==
  [tags : TagTokenLists, sites : SiteTokenLists, exclude : ExcludeTokenLists,
   phrases : PhraseLists, keywords : KeywordLists, upper : BOOLEAN]

\* the pieces of the query, in the order they are written
Pieces(parts) ==
  [i \in 1..Len(parts.tags) |->
     (IF parts.upper THEN UpperTagMarker ELSE TagMarker) \o parts.tags[i]]
  \o [i \in 1..Len(parts.sites) |->
        (IF parts.upper THEN MixedSiteMarker ELSE SiteMarker) \o parts.sites[i]]
  \o [i \in 1..Len(parts.phrases) |-> <<Quote>> \o parts.phrases[i] \o <<Quote>>]
  \o parts.keywords
  \o [i \in 1..Len(parts.exclude) |-> ExcludeMarker \o parts.exclude[i]]

\* the query written from the parts, a space between two pieces
Written(parts) == join(Pieces(parts), <<" ">>)

\* the parser is about to be used on a query and a record
ParserInit ==
  /\ NoSearch
  /\ now = StartTime
  /\ searchCache = <<>>
  /\ born = <<>>
  /\ \E parts \in QueryParts :
       /\ parts.upper => parts.tags # <<>> \/ parts.sites # <<>>
       /\ log = <<[name |-> "query", parts |-> parts, query |-> Written(parts)]>>

\* what an operation on the query leaves alone
parserFrame ==
  <<frame, partial, searchCache, now, history, storage, loadState, loadResult, save,
    race, ext, timer, deadline, fetch, aiEnd, aiValue, aiCalls, born, queued, log,
    check>>

\* the operation name is applied to the query and the record, and returns value
Applied(name, bookmark, value) ==
  /\ call' = [NoCall EXCEPT !.entry = name, !.query = log[1].query,
                            !.bookmarks = <<bookmark>>]
  /\ result' = [kind |-> name, value |-> value]
  /\ pc' = "done"
  /\ UNCHANGED parserFrame

\* new SearchParser(query).filters
ParseCall ==
  pc = "idle" /\ Applied("parse", B1, parse(log[1].query))

\* new SearchParser(query).matches(bookmark)
MatchesCall ==
  /\ pc = "idle"
  /\ \E b \in ParsedRecords : Applied("matches", b, matches(b, parse(log[1].query)))

\* new SearchParser(query).getScore(bookmark)
ScoreCall ==
  /\ pc = "idle"
  /\ \E b \in ParsedRecords : Applied("getScore", b, getScore(b, parse(log[1].query)))

\* extractMatches(bookmark, parser.filters.include)
ExtractCall ==
  /\ pc = "idle"
  /\ \E b \in ParsedRecords :
       Applied("extractMatches", b, extractMatches(b, parse(log[1].query).include))

\* isAdvancedQuery(query)
AdvancedCall ==
  pc = "idle" /\ Applied("isAdvancedQuery", B1, isAdvancedQuery(log[1].query))

\* localSearch([bookmark], query)
SearchCall ==
  /\ pc = "idle"
  /\ \E b \in ParsedRecords :
       Applied("localSearch", b,
               localSearch(<<b>>, log[1].query, DefaultOptions.limit,
                           DefaultOptions.minScore))

ParserNext ==
  ParseCall \/ MatchesCall \/ ScoreCall \/ ExtractCall \/ AdvancedCall \/ SearchCall

\* one operation of the parser on one query
ParserSpec == ParserInit /\ [][ParserNext]_vars

(***************************************************************************)
(* Calls of getSearchSuggestions                                           *)
(***************************************************************************)

\* what is typed before the colon; <<>>: no colon is typed
TypedPrefixes ==
  {<<>>, TagPrefix, <<"T", "a", "g">>, TagPrefixZh, SitePrefix, SitePrefixZh}

\* what is typed after the colon
TypedRests == {<<>>, <<"t">>, <<"T">>, <<" ", "u">>, <<"h", "u", "b">>, <<"o", "r", "g">>}

\* the tags of the bookmarks
TagLists == {<<>>, << <<"t">> >>, << <<"T", "u">>, <<"x">>, <<"u">> >>}

\* the query typed
Typed(prefix, rest) == IF prefix = <<>> THEN rest ELSE prefix \o <<":">> \o rest

\* suggestions are about to be asked for
SuggestInit ==
  /\ NoSearch
  /\ now = StartTime
  /\ searchCache = <<>>
  /\ born = <<>>
  /\ \E prefix \in TypedPrefixes, rest \in TypedRests, tags \in TagLists :
       \E past \in StoredHistories :
         log = <<[name |-> "typed", prefix |-> prefix, rest |-> rest, tags |-> tags,
                  past |-> past, query |-> Typed(prefix, rest)]>>

\* getSearchSuggestions(query, searchHistory, tags)
SuggestionsCall ==
  /\ pc = "idle"
  /\ call' = [NoCall EXCEPT !.entry = "getSearchSuggestions", !.query = log[1].query]
  /\ result' = [kind |-> "getSearchSuggestions",
                value |-> getSearchSuggestions(log[1].query, log[1].past, log[1].tags)]
  /\ pc' = "done"
  /\ UNCHANGED parserFrame

SuggestNext == SuggestionsCall

\* one call of getSearchSuggestions
SuggestSpec == SuggestInit /\ [][SuggestNext]_vars

(***************************************************************************)
(* The broken-link check                                                   *)
(*   src/src/utils/link-checker.js   (checkLink, checkLinks,                *)
(*                                    checkBookmarks, the move to the      *)
(*                                    pending-cleanup category)            *)
(*   src/src/background/background.js (handleCheckBrokenLinks)             *)
(* The error texts and the times of the results are left out.              *)
(***************************************************************************)

\* fetch resolves with a response
Responded(status, type) == [kind |-> "response", status |-> status, type |-> type]

\* fetch rejects with an error
Threw(name, message) == [kind |-> "error", name |-> name, message |-> message]

Aborted == Threw("AbortError", <<"a", "b", "o", "r", "t">>)
FailedToFetch == Threw("TypeError", <<"f", "e", "t", "c", "h">>)
NetworkDown == Threw("Error", <<"n", "e", "t", "w", "o", "r", "k">>)
NameNotResolved == Threw("Error", <<"D", "N", "S">>)
OK200 == Responded(200, "basic")
NotFound404 == Responded(404, "basic")
Opaque == Responded(0, "opaque")

\* the fetches of one checkLink: at most retries + 1 with HEAD and one with GET
MaxFetches == 4

\* what the network answers to the successive fetches of one link
AnswerLists ==
  { <<OK200>>, <<NotFound404>>, <<Opaque, Opaque>>, <<Opaque, OK200>>, <<Opaque, NotFound404>>,
    <<Aborted, Aborted, Aborted>>, <<Aborted, Opaque, Opaque>>, <<NetworkDown, OK200>>,
    <<NetworkDown, NetworkDown, NetworkDown>>, <<FailedToFetch>>, <<NameNotResolved>> }

\* the answers of the list, and OK200 for the fetches after them
Answers(list) == [i \in 1..MaxFetches |-> IF i <= Len(list) THEN list[i] ELSE OK200]

\* 'dns' and 'ename' do not occur in the model's lower-cased alphabet but as d, n, s
classifyError(error) ==
  LET message == [i \in 1..Len(error.message) |->
                    CASE error.message[i] = "D" -> "d"
                      [] error.message[i] = "N" -> "n"
                      [] error.message[i] = "S" -> "s"
                      [] OTHER -> LowerChar(error.message[i])]
  IN  IF includes(message, <<"d", "n", "s">>) \/ includes(message, <<"e", "n", "a", "m", "e">>)
      THEN "dns"
      ELSE IF includes(message, <<"n", "e", "t", "w", "o", "r", "k">>)
              \/ includes(message, <<"f", "e", "t", "c", "h">>)
      THEN "network"
      ELSE IF includes(message, <<"c", "o", "r", "s">>) THEN "cors"
      ELSE "unknown"

isTemporaryError(error) ==
  LET message == toLowerCase(error.message)
  IN  \E err \in { <<"n", "e", "t", "w", "o", "r", "k">>, <<"t", "i", "m", "e", "o", "u", "t">>,
                   <<"e", "c", "o", "n", "n", "r", "e", "s", "e", "t">>,
                   <<"e", "t", "i", "m", "e", "d", "o", "u", "t">> } : includes(message, err)

LinkResult(url, status, statusCode, attempt) ==
  [url |-> url, status |-> status, statusCode |-> statusCode, attempt |-> attempt]

\* the loop of checkLink from the given attempt on; answers: what the fetches
\* still to come answer
RECURSIVE attemptLink(_, _, _, _, _)
attemptLink(url, answers, method, retries, attempt) ==
  IF attempt > retries THEN LinkResult(url, "error", 0, retries + 1)
  ELSE
    LET response == Head(answers)
        statusCode == response.status
    IN  IF response.kind = "response"
        THEN IF statusCode >= 200 /\ statusCode < 400
             THEN LinkResult(url, "ok", statusCode, attempt + 1)
             ELSE IF statusCode >= 400
             THEN LinkResult(url, "broken", statusCode, attempt + 1)
             ELSE IF statusCode = 0 /\ response.type = "opaque"
             THEN IF method = "HEAD"
                  THEN attemptLink(url, Tail(answers), "GET", 0, 0)
                  ELSE LinkResult(url, "unknown", 0, attempt + 1)
             ELSE LinkResult(url, "ok", statusCode, attempt + 1)
        ELSE IF response.name = "AbortError"
             THEN IF attempt < retries
                  THEN attemptLink(url, Tail(answers), method, retries, attempt + 1)
                  ELSE LinkResult(url, "timeout", 0, attempt + 1)
             ELSE IF isTemporaryError(response) /\ attempt < retries
             THEN attemptLink(url, Tail(answers), method, retries, attempt + 1)
             ELSE LinkResult(url, IF classifyError(response) = "dns" THEN "dns_error"
                                  ELSE "network_error", 0, attempt + 1)

DefaultMethod == "HEAD"
DefaultRetries == 2

\* checkLink(url, options) of checkLinks: the options name no method and no retries
checkLink(url, answers) == attemptLink(url, answers, DefaultMethod, DefaultRetries, 0)

\* the results checkLinks counts as broken links
CountsAsBroken(linkResult) == linkResult.status # "ok" /\ linkResult.status # "unknown"

\* the records of the bookmark store
Stored(id, url) ==
  [id |-> id, url |-> url, status |-> "active", categoryId |-> "none",
   checkStatus |-> "none", checkStatusCode |-> 0]

K1 == Stored("k1", <<"u">>)
K2 == Stored("k2", <<"v">>)
K3 == Stored("k3", <<"w">>)
K4 == Stored("k4", <<"u">>)

\* getAllBookmarks returns the records in the order of their keys
BookmarkStores == { <<>>, <<K1>>, <<K1, K2>>, <<K1, K2, K3>>, <<K1, K2, K4>> }

\* request.concurrency: 0 stands for a request that names none
Concurrencies == {0, 1, 2}
DefaultConcurrency == 3

PendingCleanup == "pending-cleanup"

\* urlToBookmark[url]: the last record with that url
urlToBookmark(records, url) ==
  LET at == {i \in 1..Len(records) : records[i].url = url}
  IN  records[CHOOSE i \in at : \A j \in at : j <= i]

\* brokenWithIds of the progress callback of checkBookmarks
brokenWithIds(records, brokenLinks) ==
  [i \in 1..Len(brokenLinks) |->
     [url |-> brokenLinks[i].url, status |-> brokenLinks[i].status,
      bookmarkId |-> urlToBookmark(records, brokenLinks[i].url).id]]

\* the loop of checkBookmarks over the first n results: the record of each
\* result's url takes the result
RECURSIVE updateStatuses(_, _, _)
updateStatuses(records, results, n) ==
  IF n = 0 THEN records
  ELSE LET before == updateStatuses(records, results, n - 1)
           linkResult == results[n]
           id == urlToBookmark(records, linkResult.url).id
       IN  [i \in 1..Len(before) |->
              IF before[i].id = id
              THEN [before[i] EXCEPT
                      !.status = IF linkResult.status = "ok" THEN "active" ELSE "broken",
                      !.checkStatusCode = linkResult.statusCode,
                      !.checkStatus = linkResult.status]
              ELSE before[i]]

\* the broken links handleCheckBrokenLinks takes from the records
brokenOf(records) ==
  LET IsBroken(b) == b.status = "broken"
      Link(b) == [bookmarkId |-> b.id, url |-> b.url, statusCode |-> b.checkStatusCode,
                  checkStatus |-> b.checkStatus]
  IN  Map(Filter(records, IsBroken), Link)

\* the methods moveToPendingCleanup calls on its db; handleCheckBrokenLinks passes
\* the connection openDB resolved with, which has none of them
DatabaseMethods == {}

\* moveToPendingCleanup(db, bookmarkId, checkResult) on the stored records
moveToPendingCleanup(stored, link) ==
  IF "getBookmark" \notin DatabaseMethods THEN [threw |-> TRUE, stored |-> stored]
  ELSE [threw |-> FALSE,
        stored |-> [i \in 1..Len(stored) |->
                      IF stored[i].id = link.bookmarkId
                      THEN [stored[i] EXCEPT !.categoryId = PendingCleanup,
                                             !.status = "broken",
                                             !.checkStatusCode = link.statusCode,
                                             !.checkStatus = link.checkStatus]
                      ELSE stored[i]]]

\* batchMoveToPendingCleanup(db, brokenLinks): [threw, stored, movedCount]
RECURSIVE batchMoveToPendingCleanup(_, _)
batchMoveToPendingCleanup(stored, brokenLinks) ==
  IF brokenLinks = <<>> THEN [threw |-> FALSE, stored |-> stored, movedCount |-> 0]
  ELSE LET moved == moveToPendingCleanup(stored, Head(brokenLinks))
           rest == batchMoveToPendingCleanup(moved.stored, Tail(brokenLinks))
       IN  IF moved.threw THEN [threw |-> TRUE, stored |-> stored, movedCount |-> 0]
           ELSE [rest EXCEPT !.movedCount = @ + 1]

\* what the broken-link check leaves alone
checkFrame ==
  <<pc, call, frame, partial, result, searchCache, now, history, storage, loadState,
    loadResult, save, race, ext, timer, deadline, fetch, aiEnd, aiValue, aiCalls,
    log, born, queued>>

LinkInit ==
  /\ NoSearch
  /\ now = StartTime
  /\ log = <<>>
  /\ searchCache = <<>>
  /\ born = <<>>

\* handleCheckBrokenLinks up to its call of checkBookmarks, and checkBookmarks
\* and checkLinks up to the first batch
CheckRequested ==
  /\ check.phase = "none"
  /\ \E db \in BookmarkStores, concurrency \in Concurrencies :
       check' =
         IF db = <<>>
         THEN [check EXCEPT !.phase = "done",
                 !.response = [kind |-> "response", success |-> TRUE, total |-> 0,
                               brokenCount |-> 0, movedCount |-> 0, brokenLinks |-> <<>>]]
         ELSE [check EXCEPT !.phase = "checking", !.db = db, !.bookmarks = db,
                 !.concurrency = IF concurrency = 0 THEN DefaultConcurrency
                                 ELSE concurrency]
  /\ UNCHANGED checkFrame

\* one batch of checkLinks: the links of the batch are checked, the broken ones
\* are counted and the progress is reported
BatchChecked ==
  /\ check.phase = "checking"
  /\ check.completed < Len(check.bookmarks)
  /\ LET total == Len(check.bookmarks)
         first == check.completed + 1
         last == IF check.completed + check.concurrency < total
                 THEN check.completed + check.concurrency ELSE total
     IN  \E lists \in [first..last -> AnswerLists] :
           LET batchResults ==
                 [k \in 1..(last - first + 1) |->
                    checkLink(check.bookmarks[first + k - 1].url,
                              Answers(lists[first + k - 1]))]
               brokenLinks == check.brokenLinks \o Filter(batchResults, CountsAsBroken)
           IN  check' =
                 [check EXCEPT
                    !.results = @ \o batchResults,
                    !.brokenLinks = brokenLinks,
                    !.completed = last,
                    !.progress = Append(@,
                       [completed |-> last, total |-> total,
                        brokenCount |-> Len(brokenLinks),
                        brokenLinks |-> brokenWithIds(check.bookmarks, brokenLinks)])]
  /\ UNCHANGED checkFrame

\* checkLinks has returned: checkBookmarks updates the records
BookmarksUpdated ==
  /\ check.phase = "checking"
  /\ check.completed = Len(check.bookmarks)
  /\ check' = [check EXCEPT
                 !.phase = "updated",
                 !.bookmarks = updateStatuses(@, check.results, Len(check.results))]
  /\ UNCHANGED checkFrame

\* handleCheckBrokenLinks after checkBookmarks: the records are saved, the
\* broken ones are moved and the response is sent
CheckFinished ==
  /\ check.phase = "updated"
  /\ LET brokenLinks == brokenOf(check.bookmarks)
         moved == batchMoveToPendingCleanup(check.bookmarks, brokenLinks)
     IN  check' =
           [check EXCEPT
              !.phase = "done",
              !.db = moved.stored,
              !.response =
                 IF moved.threw THEN [kind |-> "response", success |-> FALSE]
                 ELSE [kind |-> "response", success |-> TRUE,
                       total |-> Len(check.bookmarks),
                       brokenCount |-> Len(brokenLinks),
                       movedCount |-> moved.movedCount,
                       brokenLinks |-> brokenLinks]]
  /\ UNCHANGED checkFrame

LinkNext == CheckRequested \/ BatchChecked \/ BookmarksUpdated \/ CheckFinished

LinkSpec == LinkInit /\ [][LinkNext]_vars

(***************************************************************************)
(* Properties                                                              *)
(***************************************************************************)

\* the call has settled
Settled == pc = "done"

\* the configuration has an endpoint and a credential
HasAI == call.config.present /\ call.config.apiUrl /\ call.config.apiKey

\* the AI search failed: the external call threw, or the timeout fired first
AIFailed == aiEnd \in {"threw", "timeout"}

\* the AI search succeeded (now or earlier, from the cache) with no result
AIEmpty == aiEnd \in {"ok", "cached"} /\ aiValue = ListOf(<<>>)

\* the AI search succeeded with at least one result
AINonEmpty == aiEnd \in {"ok", "cached"} /\ aiValue.kind = "list" /\ aiValue.items # <<>>

\* localSearch(records, query, {}) for the call's records and query
DefaultLocal == localSearch(call.bookmarks, call.query, 50, 0)

\* C1: a call of search with a non-blank query settles with an envelope whose
\* results are a list of records (not null, not an error, not another object),
\* and whose results are the local search results when the AI call failed
C1_SearchResolvesToRecords ==
  (Settled /\ call.entry = "search" /\ ~IsBlank(call.query)) =>
    /\ result.kind = "envelope"
    /\ result.results.kind = "list"
    /\ AIFailed => result.results.items = DefaultLocal

\* localSearch(records, query, {limit: localLimit}) for the call's records and query
HybridLocal == localSearch(call.bookmarks, call.query, call.options.localLimit, 0)

\* C2: under every merge strategy, when the AI search rejects, times out, is not
\* configured or succeeds with no result, hybridSearch does not reject and
\* resolves to exactly what localSearch(records, query, {limit: localLimit}) returns
C2_HybridFallsBackToLocal ==
  (Settled /\ call.entry = "hybridSearch" /\ ~IsBlank(call.query)
     /\ (AIFailed \/ aiEnd = "unconfigured" \/ AIEmpty)) =>
    result = ListOf(HybridLocal)

C2_Witness ==
  /\ Settled /\ call.entry = "hybridSearch"
  /\ aiEnd = "timeout"
  /\ call.options.localLimit = 1
  /\ call.options.mergeStrategy = "intersect"
  /\ result.kind = "list" /\ Len(result.items) = 1

\* C3: hybridSearch with mergeStrategy 'ai-first' resolves to the AI result
\* sequence itself when the AI search produced at least one result, and to the
\* local results when it produced none
C3_AIFirstReturnsAIResults ==
  (Settled /\ call.entry = "hybridSearch" /\ call.options.mergeStrategy = "ai-first") =>
    /\ AINonEmpty => result = ListOf(aiValue.items)
    /\ AIEmpty => result = ListOf(HybridLocal)

\* hybridSearch has settled under mergeStrategy 'union' with a non-empty AI result
UnionCase ==
  /\ Settled /\ call.entry = "hybridSearch"
  /\ call.options.mergeStrategy = "union"
  /\ AINonEmpty

\* the local results whose id is not among the AI ids, in local order, tagged local
LocalOnly ==
  LET NotAI(r) == \A j \in 1..Len(aiValue.items) : aiValue.items[j].id # r.id
      only == SelectSeq(HybridLocal, NotAI)
  IN  [i \in 1..Len(only) |-> TagLocal(only[i])]

\* the AI results without the later entries of an id already seen, in AI order
DistinctAI ==
  LET ai == aiValue.items
      keep == {i \in 1..Len(ai) : \A j \in 1..(i - 1) : ai[j].id # ai[i].id}
  IN  [k \in 1..Cardinality(keep) |->
         ai[CHOOSE i \in keep : Cardinality({j \in keep : j < i}) = k - 1]]

NoDuplicateIds ==
  \A i, j \in 1..Len(result.items) : result.items[i].id = result.items[j].id => i = j

\* C4 as the specification states it: under 'union' with a non-empty AI result
\* hybridSearch returns the first aiLimit entries of the AI results followed by
\* the local-only results tagged local, and no id occurs twice in the output
C4_UnionIsAIThenLocalOnly ==
  UnionCase =>
    /\ result = ListOf(Take(aiValue.items \o LocalOnly, call.options.aiLimit))
    /\ NoDuplicateIds

\* C4, amended: under 'union' with a non-empty AI result hybridSearch returns the
\* first aiLimit entries of the AI results, each id at its first occurrence only,
\* followed by the local-only results tagged local; no id occurs twice in the output
C4_UnionIsDistinctAIThenLocalOnly ==
  UnionCase =>
    /\ result = ListOf(Take(DistinctAI \o LocalOnly, call.options.aiLimit))
    /\ NoDuplicateIds

C4_Witness ==
  /\ UnionCase
  /\ Len(DistinctAI) < Len(aiValue.items)
  /\ \E i \in 1..Len(result.items) : result.items[i].searchType = "local"

\* localSearch(records, query, options) for the call
OptionsLocal ==
  localSearch(call.bookmarks, call.query, call.options.limit, call.options.minScore)

\* C5: smartSearch calls the external AI collaborator only if the configuration
\* has an endpoint and a credential and preferAI or useHybrid is set or there are
\* fewer than aiThreshold local results; with AI configured, neither flag set and
\* at least aiThreshold local results it returns the local results without a call
C5_SmartSearchCallsAIOnlyWhenNeeded ==
  call.entry = "smartSearch" =>
    /\ aiCalls > 0 =>
         /\ HasAI
         /\ \/ call.options.preferAI
            \/ call.options.useHybrid
            \/ Len(OptionsLocal) < call.options.aiThreshold
    /\ (Settled /\ HasAI /\ ~call.options.preferAI /\ ~call.options.useHybrid
          /\ Len(OptionsLocal) >= call.options.aiThreshold) =>
         (result = ListOf(OptionsLocal) /\ aiCalls = 0)

C5_Witness ==
  /\ Settled /\ call.entry = "smartSearch" /\ HasAI
  /\ ~call.options.preferAI /\ ~call.options.useHybrid
  /\ Len(OptionsLocal) = call.options.aiThreshold
  /\ aiCalls = 0
  /\ result = ListOf(OptionsLocal)

\* C6: smartSearch(query, records, null, {}) resolves to exactly the sequence
\* localSearch(records, query, {}) returns
C6_SmartSearchWithoutConfigIsLocal ==
  (Settled /\ call.entry = "smartSearch" /\ ~call.config.present
     /\ call.options = DefaultOptions) =>
    result = ListOf(DefaultLocal)

C6_Witness ==
  /\ Settled /\ call.entry = "smartSearch" /\ ~call.config.present
  /\ call.options = DefaultOptions
  /\ result.kind = "list" /\ Len(result.items) > 1

\* C7: when the external call throws or the timeout fires, aiSemanticSearch
\* returns null if fallbackToLocal is true and rejects with the error if it is
\* false; when the call succeeds, with no matching id too, it returns a list
C7_FailureDefersOrRejects ==
  (Settled /\ call.entry = "aiSemanticSearch") =>
    /\ aiEnd = "threw" =>
         result = IF call.options.fallbackToLocal THEN NoResults
                  ELSE Rejected("Transport")
    /\ aiEnd = "timeout" =>
         result = IF call.options.fallbackToLocal THEN NoResults
                  ELSE Rejected("SearchTimeout")
    /\ aiEnd = "ok" => result.kind = "list"

C7_Witness ==
  /\ Settled /\ call.entry = "aiSemanticSearch"
  /\ aiEnd = "timeout" /\ ~call.options.fallbackToLocal
  /\ result = Rejected("SearchTimeout")

\* C8: aiSemanticSearch called with a non-blank query, fallbackToLocal = true and
\* a configuration that lacks the endpoint, the credential or the model
\* identifier returns null and makes no external call
C8_IncompleteConfigDefers ==
  (call.entry = "aiSemanticSearch" /\ ~IsBlank(call.query)
     /\ call.options.fallbackToLocal
     /\ ~(HasAI /\ call.config.model)) =>
    /\ aiCalls = 0
    /\ Settled => result = NoResults

\* C9: when the timer fires while the external call is in flight, aiSemanticSearch
\* settles then, as a failure, writing nothing into the cache; when the external
\* call delivers after that, what the caller got and the cache stay as they are
C9_LateResultIsDiscarded ==
  [][/\ (timer = "armed" /\ timer' = "fired" /\ ext = "inflight") =>
          /\ aiEnd' = "timeout"
          /\ now' = deadline
          /\ aiValue' \in {NoResults, Rejected("SearchTimeout")}
          /\ searchCache' = searchCache
     /\ (ext = "inflight" /\ ext' = "done" /\ timer = "fired") =>
          /\ aiEnd' = aiEnd /\ aiValue' = aiValue
          /\ pc' = pc /\ result' = result
          /\ searchCache' = searchCache]_vars

C9_Witness ==
  /\ ext = "done" /\ timer = "fired" /\ aiEnd = "timeout"
  /\ call.options.useCache
  /\ call.entry = "aiSemanticSearch"

\* C10: every call of search eventually settles, whatever its options, even when
\* the completion service never answers, as long as storage answers and timers fire
C10_SearchEventuallyResolves == (pc # "idle") ~> Settled

\* the last call of the log
LastCall == log[Len(log)]

\* the calls before the last that set the entry the last call asks for, and that
\* no later call before the last has written again or cleared
StoredForLastCall ==
  {i \in 1..(Len(log) - 1) :
     /\ log[i].name = "set"
     /\ log[i].query = LastCall.query
     /\ Range(log[i].ids) = Range(LastCall.ids)
     /\ \A j \in (i + 1)..(Len(log) - 1) :
          /\ log[j].name # "clear"
          /\ ~(/\ log[j].name = "set"
               /\ log[j].query = LastCall.query
               /\ Range(log[j].ids) = Range(LastCall.ids))}

\* C11: for an entry set at time T and not written again, evicted or cleared
\* since, get returns the stored results at every time t with t - T <= 299999
\* and reports a miss at every time t with t - T >= 300001
C11_EntryLivesForTheTTL ==
  (log # <<>> /\ LastCall.name = "get"
     /\ getKey(LastCall.query, LastCall.ids) \in CacheKeys(searchCache)) =>
    \A i \in StoredForLastCall :
      /\ LastCall.at - log[i].at <= 299999 => LastCall.got = ListOf(log[i].results)
      /\ LastCall.at - log[i].at >= 300001 => LastCall.got = NoResults

C11_Witness ==
  /\ log # <<>> /\ LastCall.name = "get"
  /\ \E i \in StoredForLastCall :
       /\ LastCall.at - log[i].at = 300001
       /\ log[i].results # <<>>
  /\ LastCall.got = NoResults

\* C12: after any sequence of set, get and clear calls the cache holds at most
\* 100 entries
C12_CacheHoldsAtMost100 == Len(searchCache) <= 100

C12_Witness ==
  /\ Len(searchCache) = 100
  /\ Len(log) = 2
  /\ \A i \in 1..2 : log[i].name = "set" /\ log[i].query \in {QA, QXY}
  /\ log[1].query # log[2].query

\* the keys of the cache inserted before all others in it
EarliestInserted ==
  {k \in CacheKeys(searchCache) : \A other \in CacheKeys(searchCache) : born[k] <= born[other]}

\* C13: when set adds a new key to a cache of 100 entries, the entry it removes
\* is the one whose key was inserted earliest, whether read lately or not and
\* stale or not; get leaves the cache as it is
C13_EvictsTheEarliestInserted ==
  [][/\ (/\ Len(log') = Len(log) + 1
         /\ log'[Len(log')].name = "set"
         /\ getKey(log'[Len(log')].query, log'[Len(log')].ids) \notin CacheKeys(searchCache)
         /\ Len(searchCache) = 100) =>
          \E old \in EarliestInserted :
            CacheKeys(searchCache') =
              (CacheKeys(searchCache) \ {old})
                \cup {getKey(log'[Len(log')].query, log'[Len(log')].ids)}
     /\ (Len(log') = Len(log) + 1 /\ log'[Len(log')].name = "get") =>
          searchCache' = searchCache]_vars

C13_Witness ==
  /\ Len(log) = 2
  /\ log[1].name = "get" /\ log[1].query = Numeral(0) /\ log[1].got = NoResults
  /\ log[2].name = "set" /\ log[2].query = QA
  /\ Len(searchCache) = 100
  /\ getKey(Numeral(0), BothIds) \notin CacheKeys(searchCache)
  /\ getKey(Numeral(1), BothIds) \in CacheKeys(searchCache)

\* C14: get(q, ids2) right after set(q, ids1, results), within the time-to-live,
\* returns results when ids2 is another ordering of the ids of ids1
C14_KeyIgnoresTheOrderOfIds ==
  (/\ Len(log) >= 2
   /\ LastCall.name = "get"
   /\ log[Len(log) - 1].name = "set"
   /\ log[Len(log) - 1].query = LastCall.query
   /\ Range(log[Len(log) - 1].ids) = Range(LastCall.ids)
   /\ Len(log[Len(log) - 1].ids) = Len(LastCall.ids)
   /\ LastCall.at - log[Len(log) - 1].at < 300000) =>
    LastCall.got = ListOf(log[Len(log) - 1].results)

C14_Witness ==
  /\ Len(log) >= 2
  /\ LastCall.name = "get"
  /\ log[Len(log) - 1].name = "set"
  /\ log[Len(log) - 1].ids = <<"b2", "b1">>
  /\ LastCall.ids = <<"b1", "b2">>
  /\ LastCall.at - log[Len(log) - 1].at = 299999
  /\ LastCall.got = ListOf(log[Len(log) - 1].results)
  /\ log[Len(log) - 1].results # <<>>

\* the load found nothing stored, and every call so far was an add made after it
AddsOnly ==
  /\ loadState = "done"
  /\ loadResult = <<>>
  /\ \A i \in 1..Len(log) : log[i].name = "add" /\ log[i].loaded

\* the queries added, trimmed, in the order of the calls
Added == [i \in 1..Len(log) |-> trim(log[i].query)]

\* the adds of a non-blank query that no later add repeats
LastAdds(added) ==
  {i \in 1..Len(added) : added[i] # <<>> /\ \A j \in (i + 1)..Len(added) : added[j] # added[i]}

\* the place of the query of add i, counted from the most recent one
Recency(last, i) == 1 + Cardinality({j \in last : j > i})

\* the history holds the queries of the adds last, most recent first, cut to n
HoldsRecent(added, last, n) ==
  /\ Len(history) = (IF Cardinality(last) < n THEN Cardinality(last) ELSE n)
  /\ \A i \in last : Recency(last, i) <= n => history[Recency(last, i)] = added[i]
  /\ \A i, j \in 1..Len(history) : history[i] = history[j] => i = j

\* C15: starting from an empty, loaded history, after any sequence of add calls the
\* history holds the distinct trimmed non-blank queries, most recently added
\* first, cut to the 50 most recent: no string twice, at most 50 entries
C15_HistoryIsTheRecentDistinctQueries ==
  AddsOnly => HoldsRecent(Added, LastAdds(Added), 50)

\* 51 distinct queries have been added, one of them twice or with a blank one between
C15_Witness ==
  /\ AddsOnly
  /\ Len(log) = 52
  /\ Cardinality(LastAdds(Added)) = 51
  /\ Len(history) = 50
  /\ ~save.pending

\* C16: once the load and every save issued have completed, the list in storage
\* equals the history in memory
C16_StorageEqualsHistoryAtRest ==
  (loadState = "done" /\ ~save.pending /\ queued = <<>>) => storage = history

\* the query is empty or holds spaces only
SpacesOnly(query) == \A i \in 1..Len(query) : query[i] = " "

\* the step is a call of search with such a query
BlankSearchCalled ==
  pc = "idle" /\ call'.entry = "search" /\ call' # call /\ SpacesOnly(call'.query)

\* C17: search with an empty or whitespace-only query returns at once an envelope
\* with no results, stats.matched = 0 and no suggestions; it leaves the history,
\* in memory and in storage, and the cache as they were, issues no save and
\* makes no call of the completion service
C17_BlankSearchIsEmptyAndTouchesNothing ==
  [][BlankSearchCalled =>
       /\ pc' = "done"
       /\ result'.kind = "envelope"
       /\ result'.results = ListOf(<<>>)
       /\ result'.stats.matched = 0
       /\ result'.suggestions = <<>>
       /\ UNCHANGED <<history, storage, save, queued, searchCache>>
       /\ UNCHANGED <<aiCalls, ext, race, fetch>>]_vars

\* search(' ') has returned, called with a complete configuration and with
\* suggestions asked for, while the cache and the history held entries
C17_Witness ==
  /\ pc = "done"
  /\ call.entry = "search"
  /\ call.query = QBlank
  /\ call.config = FullConfig
  /\ call.options.useAI
  /\ call.options.suggestions
  /\ call.options.history
  /\ Len(call.bookmarks) > 0
  /\ searchCache # <<>>
  /\ history # <<>>
  /\ result.kind = "envelope"

\* the ids of the records passed to the call
CallIds == {call.bookmarks[i].id : i \in 1..Len(call.bookmarks)}

\* the ids the completion service answered with
AnsweredIds == log[Len(log)].response.ids

\* items are the entries of ids that are among the records of the call, in the
\* order of ids: place takes the items to their entries
KeepsOrder(items, ids) ==
  \E place \in [1..Len(items) -> 1..Len(ids)] :
    /\ \A i, j \in 1..Len(items) : i < j => place[i] < place[j]
    /\ \A i \in 1..Len(items) : items[i].id = ids[place[i]]
    /\ \A k \in 1..Len(ids) :
         ids[k] \in CallIds => \E i \in 1..Len(items) : place[i] = k

\* the item at the 1-based position i is a record of the call, marked by its place
Ranked(items) ==
  \A i \in 1..Len(items) :
    /\ items[i].id \in CallIds
    /\ items[i].score = 100 - (i - 1)
    /\ items[i].aiRank = i
    /\ items[i].searchType = "ai"

\* C18: every record of a successful aiSemanticSearch result has the id of a
\* record passed to the call; ids the completion service names that are not among
\* them are dropped, the others keep its order, and the record at the 0-based
\* position i has _score 100 - i, _aiRank i + 1 and _searchType 'ai'
C18_AIResultsAreRankedRecordsOfTheCall ==
  /\ aiEnd \in {"ok", "cached"} => aiValue.kind = "list" /\ Ranked(aiValue.items)
  /\ aiEnd = "ok" => KeepsOrder(aiValue.items, AnsweredIds)

\* the completion service named b3 and then b2 for a call with the record b2 alone
C18_Witness ==
  /\ pc = "done"
  /\ call.entry = "aiSemanticSearch"
  /\ aiEnd = "ok"
  /\ call.bookmarks = <<B2>>
  /\ AnsweredIds = <<"b3", "b2">>
  /\ result = aiValue
  /\ Len(result.items) = 1
  /\ result.items[1].id = "b2"
  /\ result.items[1].score = 100

\* localSearch has returned
LocalDone == pc = "done" /\ call.entry = "localSearch"

\* the record of the call with the id of item
RecordOf(item) == CHOOSE b \in Range(call.bookmarks) : b.id = item.id

\* the records of the call that are not among items
LeftOut(items) == {b \in Range(call.bookmarks) : \A i \in 1..Len(items) : items[i].id # b.id}

\* items is what the claim allows for the filters, limit and minScore
RankedMatches(items, filters, limit, minScore) ==
  /\ Len(items) <= limit
  /\ \A i, j \in 1..Len(items) : i < j => items[i].score >= items[j].score
  /\ \A i \in 1..Len(items) :
       /\ \E b \in Range(call.bookmarks) : b.id = items[i].id
       /\ matches(RecordOf(items[i]), filters)
       /\ items[i].score = getScore(RecordOf(items[i]), filters)
       /\ items[i].score >= minScore
  /\ \A b \in LeftOut(items) :
       matches(b, filters) =>
         \A i \in 1..Len(items) : getScore(b, filters) <= items[i].score

\* C19: for a non-blank query, a limit and a minScore >= 0, localSearch returns at
\* most limit records in non-increasing _score order; each passes the match
\* decision with a _score >= minScore, and no matching record left out has a
\* strictly higher score than a returned one
C19_LocalSearchReturnsTheBestMatches ==
  (LocalDone /\ ~SpacesOnly(call.query) /\ call.options.minScore >= 0) =>
    RankedMatches(result.items, parse(call.query), call.options.limit,
                  call.options.minScore)

\* localSearch('a', [b1, b2, b3], { limit: 1, minScore: 1 }) returned b2 and left
\* the matching b1 out
C19_Witness ==
  /\ LocalDone
  /\ call.query = QA
  /\ call.bookmarks = AllRecords
  /\ call.options.limit = 1
  /\ call.options.minScore = 1
  /\ Len(result.items) = 1
  /\ result.items[1].id = "b2"
  /\ matches(B1, parse(call.query))

\* a field holds the token, case-insensitively
Holds(field, token) == includes(toLowerCase(field), toLowerCase(token))

\* the title, the url, the description or a tag of the record holds the token
ContainsToken(b, token) ==
  \/ Holds(b.title, token)
  \/ Holds(b.url, token)
  \/ Holds(b.description, token)
  \/ \E t \in 1..Len(b.tags) : Holds(b.tags[t], token)

\* the exclude token the query of the call was written with
ExcludeOfCall == log[Len(log)].exclude

\* no record returned holds the exclude token of the query
NoneExcluded ==
  \A i \in 1..Len(result.items) : ~ContainsToken(RecordOf(result.items[i]), ExcludeOfCall)

Did(name) == pc = "done" /\ call.entry = name

\* the parts the query was written from
Parts == log[1].parts

\* the record the operation was applied to
Record == call.bookmarks[1]

\* the query is made of tag filters only
TagFiltersOnly ==
  /\ Parts.tags # <<>>
  /\ Parts.sites = <<>> /\ Parts.exclude = <<>> /\ Parts.phrases = <<>>
  /\ Parts.keywords = <<>>

\* the query is made of unquoted keywords only
KeywordsOnly ==
  /\ Parts.keywords # <<>>
  /\ Parts.sites = <<>> /\ Parts.exclude = <<>> /\ Parts.phrases = <<>>
  /\ Parts.tags = <<>>

\* every token is held by some tag of the record
EveryTagTokenHeld(b, tokens) ==
  \A k \in 1..Len(tokens) : \E t \in 1..Len(b.tags) : Holds(b.tags[t], tokens[k])

\* C21: a query made of tag filters only matches a record iff every filter token
\* is a case-insensitive substring of some tag of the record; a query made of
\* unquoted keywords only matches a record iff at least one keyword occurs in its
\* title, url, description or tags
C21_TagsAreConjunctiveKeywordsDisjunctive ==
  /\ (Did("matches") /\ TagFiltersOnly) =>
       (result.value <=> EveryTagTokenHeld(Record, Parts.tags))
  /\ (Did("matches") /\ KeywordsOnly) =>
       (result.value <=> \E k \in 1..Len(Parts.keywords) :
                           ContainsToken(Record, Parts.keywords[k]))

\* 'tag:t tag:u' has been matched against b1, which has the tag t and no tag
\* with u, and did not match
C21_Witness ==
  /\ Did("matches")
  /\ TagFiltersOnly
  /\ Parts.tags = << <<"t">>, <<"u">> >>
  /\ Record = B1
  /\ result.value = FALSE

\* C22: every double-quoted phrase of the query, of one word or of several, is a
\* case-insensitive substring of the concatenated text of every record that
\* localSearch returns, whatever other keywords the query holds
C22_QuotedPhrasesAppearVerbatim ==
  Did("localSearch") =>
    \A i \in 1..Len(result.value) :
      \A k \in 1..Len(Parts.phrases) :
        includes(allText(Record), toLowerCase(Parts.phrases[k]))

\* the include entries of the query: its phrases, then its keywords
IncludeEntries == Parts.phrases \o Parts.keywords

\* the number of the entries that satisfy Test
HowMany(entries, Test(_)) == Cardinality({k \in 1..Len(entries) : Test(entries[k])})

\* the score the weights give the record b for the query
Weighed(b) ==
  LET InTitle(e) == Holds(b.title, e)
      IsTitle(e) == toLowerCase(b.title) = toLowerCase(e)
      InUrl(e) == Holds(b.url, e)
      InDescription(e) == Holds(b.description, e)
      InSomeTag(e) == \E t \in 1..Len(b.tags) : Holds(b.tags[t], e)
      pairs == {<<k, t>> \in (1..Len(Parts.tags)) \X (1..Len(b.tags)) :
                  Holds(b.tags[t], Parts.tags[k])}
  IN  10 * HowMany(IncludeEntries, InTitle) + 20 * HowMany(IncludeEntries, IsTitle)
      + 5 * HowMany(IncludeEntries, InUrl) + 3 * HowMany(IncludeEntries, InDescription)
      + 7 * HowMany(IncludeEntries, InSomeTag) + 5 * HowMany(Parts.sites, InUrl)
      + 8 * Cardinality(pairs)

\* the query is one keyword and nothing else
OneKeyword ==
  /\ Len(Parts.keywords) = 1
  /\ Parts.sites = <<>> /\ Parts.exclude = <<>> /\ Parts.phrases = <<>>
  /\ Parts.tags = <<>>

\* the record holds the keyword in its description and nowhere else
OnlyInDescription(b, keyword) ==
  /\ Holds(b.description, keyword)
  /\ ~Holds(b.title, keyword)
  /\ ~Holds(b.url, keyword)
  /\ \A t \in 1..Len(b.tags) : ~Holds(b.tags[t], keyword)

ParsedAsAdvanced(query) ==
  LET filters == parse(query)
  IN  \/ filters.tags # <<>>
      \/ filters.sites # <<>>
      \/ filters.exclude # <<>>
      \/ PhraseSpans(trim(query), 1) # <<>>

\* C24: isAdvancedQuery(query) is true iff parsing the query yields at least one
\* tag filter, site filter, exclude token or quoted phrase, also when the marker
\* is written in upper or mixed case
C24_AdvancedFlagAgreesWithTheParser ==
  Did("isAdvancedQuery") => (result.value <=> ParsedAsAdvanced(call.query))

\* the labels of the suggestions, in order
Labels(suggestions) == [i \in 1..Len(suggestions) |-> suggestions[i].label]

\* the sequence holds the remainder typed, trimmed, whatever the case
HoldsRest(text) == Holds(text, trim(log[1].rest))

\* the suggestions are one of the type for each entry of list that holds the
\* remainder
OnePerHit(suggestions, type, list) ==
  /\ Labels(suggestions) = SelectSeq(list, HoldsRest)
  /\ \A i \in 1..Len(suggestions) : suggestions[i].type = type

\* C25: for an input with a colon, getSearchSuggestions filters by the remainder
\* after the prefix, for each recognized prefix alike: one tag suggestion for
\* every tag that holds the remainder after 'tag' or its Chinese form, one site
\* suggestion for every well-known domain that holds it after 'site' or its
\* Chinese form
C25_SuggestionsFilterByTheRemainder ==
  /\ (Did("getSearchSuggestions") /\ toLowerCase(log[1].prefix) \in {TagPrefix, TagPrefixZh})
       => OnePerHit(result.value, "tag", log[1].tags)
  /\ (Did("getSearchSuggestions") /\ log[1].prefix \in {SitePrefix, SitePrefixZh})
       => OnePerHit(result.value, "site", commonSites)

\* hybridSearch has settled under mergeStrategy 'intersect' with a non-empty AI
\* result
IntersectCase ==
  /\ Settled /\ call.entry = "hybridSearch"
  /\ call.options.mergeStrategy = "intersect"
  /\ AINonEmpty

\* items are the entries of local whose id is in ids, unchanged and in the order
\* of local: place takes the items to their entries
KeepsThoseIn(items, local, ids) ==
  \E place \in [1..Len(items) -> 1..Len(local)] :
    /\ \A i, j \in 1..Len(items) : i < j => place[i] < place[j]
    /\ \A i \in 1..Len(items) : items[i] = local[place[i]]
    /\ \A k \in 1..Len(local) :
         local[k].id \in ids <=> \E i \in 1..Len(items) : place[i] = k

\* C26: hybridSearch with mergeStrategy 'intersect' and a non-empty AI result
\* returns the local results whose id is among the AI result ids, in local order
\* with their local _score and _matches, and nothing else
C26_IntersectKeepsLocalResultsInAI ==
  IntersectCase =>
    /\ result.kind = "list"
    /\ KeepsThoseIn(result.items, HybridLocal,
                    {aiValue.items[i].id : i \in 1..Len(aiValue.items)})

\* the AI search named b3 and b2, the local search found b2 and b1: b2 is returned
\* with its local score
C26_Witness ==
  /\ IntersectCase
  /\ Len(HybridLocal) = 2
  /\ Len(aiValue.items) = 2
  /\ aiValue.items[1].id = "b3"
  /\ Len(result.items) = 1
  /\ result.items[1].id = "b2"
  /\ result.items[1].score # aiValue.items[2].score

\* the spans recorded for the token, as <<start, end>>
SpansOf(spans, token) ==
  {<<spans[i].start, spans[i].end>> :
     i \in {j \in 1..Len(spans) : toLowerCase(spans[j].text) = toLowerCase(token)}}

\* no two of the spans share a position
NonOverlapping(found) ==
  \A a, b \in found : a # b => a[2] <= b[1] \/ b[2] <= a[1]

\* every span holds the text of the field between its start and its end, which
\* is an include entry but for the case
SpansIndexTheField(spans, field) ==
  \A i \in 1..Len(spans) :
    /\ 0 <= spans[i].start /\ spans[i].end <= Len(field)
    /\ spans[i].text = SubSeq(field, spans[i].start + 1, spans[i].end)
    /\ \E k \in 1..Len(IncludeEntries) :
         toLowerCase(spans[i].text) = toLowerCase(IncludeEntries[k])

\* the spans of one field are as the claim has them
WellFormedSpans(spans, field) ==
  /\ SpansIndexTheField(spans, field)
  /\ \A k \in 1..Len(IncludeEntries) : NonOverlapping(SpansOf(spans, IncludeEntries[k]))

\* C27: for every include token and each of title, url and description, the
\* spans recorded in _matches for the token in the field do not overlap one
\* another, the text of each equals the token but for the case, and start and
\* end index the field as it is written
C27_HighlightSpansDoNotOverlap ==
  Did("extractMatches") =>
    /\ WellFormedSpans(result.value.title, Record.title)
    /\ WellFormedSpans(result.value.url, Record.url)
    /\ WellFormedSpans(result.value.description, Record.description)

\* the call the step makes, when it makes one
CallMade == log'[Len(log')]

\* the step is a set of a key the cache holds
PresentKeySet ==
  /\ Len(log') = Len(log) + 1
  /\ CallMade.name = "set"
  /\ getKey(CallMade.query, CallMade.ids) \in CacheKeys(searchCache)

\* the entry of the key in the cache
EntryOf(cache, key) == cache[CHOOSE i \in 1..Len(cache) : cache[i].key = key]

\* C28: set with a key the cache holds replaces the results and the timestamp of
\* the entry of the key and removes no other entry, also when the cache holds
\* 100 entries
C28_SetOfPresentKeyRemovesNothing ==
  [][PresentKeySet =>
       /\ CacheKeys(searchCache') = CacheKeys(searchCache)
       /\ \A k \in CacheKeys(searchCache) :
            EntryOf(searchCache', k) =
              IF k = getKey(CallMade.query, CallMade.ids)
              THEN [key |-> k, results |-> CallMade.results, timestamp |-> now]
              ELSE EntryOf(searchCache, k)]_vars

\* one add of a non-blank query was made, before the load completed, and the
\* load and the save have completed since
EarlyAddAtRest ==
  /\ Len(log) = 1
  /\ log[1].name = "add" /\ ~log[1].loaded /\ ~SpacesOnly(log[1].query)
  /\ loadState = "done"
  /\ ~save.pending /\ queued = <<>>

\* the entries stored before the start, without the one equal to the query
StoredBeforeWithout(query) ==
  LET Other(h) == h # query
  IN  SelectSeq(loadResult, Other)

\* C29: after an add(q) made before the startup load has resolved, once the load
\* and the save have completed, the stored list is q followed by the entries
\* stored before the start, apart from a duplicate of q and from the entries
\* past the 50th
C29_EarlyAddKeepsTheStoredEntries ==
  EarlyAddAtRest =>
    storage = Take(<<trim(log[1].query)>> \o StoredBeforeWithout(trim(log[1].query)), 50)

\* checkBookmarks has updated the records of the check
Updated == check.phase \in {"updated", "done"} /\ check.bookmarks # <<>>

\* the last result of checkLinks for the record's url, when the record is the one
\* checkBookmarks updates for that url
LastResultOf(b) ==
  LET at == {n \in 1..Len(check.results) : check.results[n].url = b.url}
  IN  check.results[CHOOSE n \in at : \A m \in at : m <= n]

\* the check of the record's link ended with status 'unknown'
EndedUnknown(b) ==
  /\ urlToBookmark(check.bookmarks, b.url).id = b.id
  /\ LastResultOf(b).status = "unknown"

\* the ids of the records the check marked broken
MarkedBroken == {b.id : b \in {r \in Range(check.bookmarks) : r.status = "broken"}}

\* the ids of the broken links of the last progress report
ReportedBroken ==
  {link.bookmarkId : link \in Range(check.progress[Len(check.progress)].brokenLinks)}

\* C30: a bookmark whose link check ended with status 'unknown' is not marked
\* broken by checkBookmarks, is not among the broken links the handler counts
\* in its response and is not moved to the pending-cleanup category; and the
\* bookmarks marked broken are exactly the broken links of the progress report
C30_UnknownIsNeverMarkedBroken ==
  Updated =>
    /\ \A i \in 1..Len(check.bookmarks) :
         EndedUnknown(check.bookmarks[i]) =>
           /\ check.bookmarks[i].status # "broken"
           /\ check.db[i].status # "broken"
           /\ check.db[i].categoryId # PendingCleanup
           /\ (check.phase = "done" /\ check.response.success) =>
                \A k \in 1..Len(check.response.brokenLinks) :
                  check.response.brokenLinks[k].bookmarkId # check.bookmarks[i].id
    /\ MarkedBroken = ReportedBroken

\* the state of the check is well formed
CheckTypeOK ==
  /\ check.phase \in {"none", "checking", "updated", "done"}
  /\ check.completed = Len(check.results)
  /\ check.completed <= Len(check.bookmarks)
  /\ Len(check.db) = Len(check.bookmarks)

====
